---- MODULE Spec2Model ----
(***************************************************************************)
(* Model of the Gentoo installer (gentoo_install.py): the installation     *)
(* pipeline run_install with its six stages, the command executor          *)
(* (run_cmd, run_cmd_capture, run_in_chroot, _set_password), and main()    *)
(* with the TUI "Install" step and the line-prompt fallback.               *)
(*                                                                         *)
(* Strings.  A Python str is modelled as a sequence of chunks (TLA+        *)
(* strings); concatenation is \o.  The characters the code inspects        *)
(* ("/" in paths and URLs, "." in a language code) are chunks of their     *)
(* own in every value the code inspects, so that startswith, basename and  *)
(* the "in" test are computed on the value and not assumed.  Python's      *)
(* None is the distinguished value None; "" is <<>>.                       *)
(***************************************************************************)
EXTENDS Integers, Sequences, FiniteSets

VARIABLES
    cfg,        \* the GentooInstallConfig object
    dry_run,    \* main(): dry_run = not args.execute
    pc,         \* position of the process: "tui", "stage1".."stage6", "finished",
                \* "exited" (sys.exit) or "crashed" (uncaught exception)
    exit_code,  \* process exit status once pc is "finished"/"exited", else -1
    log,        \* observable events of the current run, in order
    fs,         \* paths that exist in the filesystem
    environ,    \* os.environ (the variables the installer reads)
    host,       \* what the host's tools print: findmnt, blkid, mirrorselect, cpuid2cpuflags
    answers,    \* what the operator replies to confirm(): junk lines, then yes/no
    nfail,      \* external commands that exited non-zero so far in this run
    entry,      \* who calls run_install: "main" (becoming "tui" or "fallback" once
                \* main has decided), or "direct" for a caller of run_install itself
    message,    \* tui_main's status line
    run,        \* 1 for the first pipeline run, 2 for the repeated one
    prev,       \* the first run as it ended (or NoRun)
    call        \* a call of one function on its own: its arguments and, once it
                \* has returned, what it returned (NoCall while the installer runs)

vars == <<cfg, dry_run, pc, exit_code, log, fs, environ, host, answers, nfail, entry, message,
          run, prev, call>>

----------------------------------------------------------------------------
(* Bounds *)

MaxJunk == 1    \* unrecognised replies the operator types before y/n
MaxFail == 1    \* external commands that may exit non-zero in one run

----------------------------------------------------------------------------
(* Strings *)

None == <<"<None>">>
L(s) == <<s>>
Truthy(s) == s # None /\ s # <<>>
StartsWith(s, p) == Len(s) >= Len(p) /\ SubSeq(s, 1, Len(p)) = p
Contains(s, ch) == \E i \in 1..Len(s) : s[i] = ch

\* Python's f-string / print formatting of a value that may be None
Fmt(s) == IF s = None THEN L("None") ELSE s

RECURSIVE JoinWith(_, _)
\* sep.join(parts) for a non-empty or empty list of strings
JoinWith(sep, parts) ==
    IF parts = <<>> THEN <<>>
    ELSE IF Len(parts) = 1 THEN parts[1]
    ELSE parts[1] \o sep \o JoinWith(sep, Tail(parts))

\* os.path.join(a, b) for a relative b and an a without trailing slash
PathJoin(a, b) == a \o <<"/">> \o b

RECURSIVE LastSlash(_, _)
LastSlash(s, i) == IF i = 0 THEN 0 ELSE IF s[i] = "/" THEN i ELSE LastSlash(s, i - 1)

\* os.path.basename(s): what follows the last "/"
Basename(s) == SubSeq(s, LastSlash(s, Len(s)) + 1, Len(s))

\* str(n) for the small numbers that occur
NumStr(n) == <<"0", "1", "2", "3", "4", "5", "6", "7", "8">>[n + 1]

\* p occurs in s as a contiguous part
Occurs(p, s) == \E i \in 0..(Len(s) - Len(p)) : SubSeq(s, i + 1, i + Len(p)) = p

GENTOO_ROOT == <<"/", "mnt", "/", "gentoo">>

----------------------------------------------------------------------------
(* GentooInstallConfig *)

DefaultConfig ==
    [ schema_version |-> 1,
      script |-> L("guided"),
      language |-> L("en_US"),
      stage3_source |-> None,
      makeopts_jobs |-> 0,
      features_parallel_fetch |-> TRUE,
      emerge_keep_going |-> FALSE,
      target_disk |-> None,
      disk_mode |-> L("auto"),
      root_partition |-> None,
      boot_partition |-> None,
      swap_partition |-> None,
      format_partitions |-> <<>>,
      root_fs |-> L("ext4"),
      use_uefi |-> "None",
      desktop_profile |-> None,
      hostname |-> None,
      username |-> None,
      root_password |-> None,
      user_password |-> None,
      user_is_sudoer |-> TRUE,
      bootloader |-> L("systemd-boot"),
      kernel |-> L("dist-kernel"),
      network_mode |-> L("copy_iso") ]

\* bool(cfg.use_uefi): None and False are falsy
UefiOn(c) == c.use_uefi = "True"

\* is_complete that accepts either disk-identity field in both modes
is_complete_either_disk(c) ==
    /\ Truthy(c.language)
    /\ (Truthy(c.root_partition) \/ Truthy(c.target_disk))
    /\ Truthy(c.root_fs)
    /\ c.use_uefi # "None"
    /\ Truthy(c.desktop_profile)
    /\ Truthy(c.hostname)
    /\ Truthy(c.username)
    /\ Truthy(c.root_password)
    /\ Truthy(c.user_password)
    /\ Truthy(c.bootloader)
    /\ Truthy(c.kernel)
    /\ Truthy(c.network_mode)

is_complete(c) ==
    LET disk_ok == IF c.disk_mode = L("manual") THEN Truthy(c.root_partition)
                   ELSE Truthy(c.target_disk)
    IN  /\ Truthy(c.language)
        /\ disk_ok
        /\ Truthy(c.root_fs)
        /\ c.use_uefi # "None"
        /\ Truthy(c.desktop_profile)
        /\ Truthy(c.hostname)
        /\ Truthy(c.username)
        /\ Truthy(c.root_password)
        /\ Truthy(c.user_password)
        /\ Truthy(c.bootloader)
        /\ Truthy(c.kernel)
        /\ Truthy(c.network_mode)

----------------------------------------------------------------------------
(* Config and credentials documents.  A JSON object is a function from its *)
(* keys to its values.                                                     *)

PasswordFields == {"root_password", "user_password"}

\* config_to_dict that leaves the passwords in
config_to_dict_with_passwords(c) == [k \in DOMAIN c |-> c[k]]

\* dataclasses.asdict(cfg) with the two passwords popped
config_to_dict(c) == [k \in DOMAIN c \ PasswordFields |-> c[k]]

\* config_from_dict that keeps the keys it does not know
config_from_dict_keeping_unknown(data) ==
    [k \in DOMAIN DefaultConfig \cup DOMAIN data |->
        IF k \in DOMAIN data THEN data[k] ELSE DefaultConfig[k]]

\* GentooInstallConfig(**filtered): the known keys of data, defaults for the rest
config_from_dict(data) ==
    [k \in DOMAIN DefaultConfig |-> IF k \in DOMAIN data THEN data[k] ELSE DefaultConfig[k]]

\* the payload save_credentials_from_config dumps
save_credentials_from_config(c) ==
    [k \in {f \in PasswordFields : c[f] # None} |-> c[k]]

\* load_credentials_into_config that takes every config field the document has
load_credentials_into_config_every_field(c, doc) ==
    IF doc.is_dict
    THEN [k \in DOMAIN c |-> IF k \in DOMAIN doc.items THEN doc.items[k] ELSE c[k]]
    ELSE c

\* the config after load_credentials_into_config(cfg, path); doc is what
\* json.load returned: a JSON object (is_dict) with its items, or another value
load_credentials_into_config(c, doc) ==
    IF doc.is_dict
    THEN [k \in DOMAIN c |->
             IF k \in PasswordFields /\ k \in DOMAIN doc.items THEN doc.items[k] ELSE c[k]]
    ELSE c

----------------------------------------------------------------------------
(* Events: what a run does that can be observed from outside.             *)
(*   log    a command handed to run_cmd / _set_password: its argv and    *)
(*          the audit line given to logging.info (dry says "(dry-run)")   *)
(*   spawn  a process started with subprocess.run (argv, stdin); s names   *)
(*          the function that started it                                  *)
(*   ask    one input() of confirm() with the reply given                 *)
(*   print  a line printed to stdout                                      *)
(*   mkdir  os.makedirs(path, exist_ok=True)                              *)
(*   write  a file opened with mode "w" or "a" (argv holds the mode), or   *)
(*          copied/symlinked                                              *)
(*   fail   the process of argv exited non-zero: subprocess.run(check=True)*)
(*          raises CalledProcessError                                     *)

Ev(k, argv, s, in, dry) == [k |-> k, argv |-> argv, s |-> s, in |-> in, dry |-> dry]
EvLog(argv, line, dry) == Ev("log", argv, line, <<>>, dry)
EvSpawn(via, argv, in) == Ev("spawn", argv, L(via), in, FALSE)
EvAsk(prompt, reply) == Ev("ask", <<>>, prompt, L(reply), FALSE)
EvPrint(line) == Ev("print", <<>>, line, <<>>, FALSE)
EvMkdir(path) == Ev("mkdir", <<>>, path, <<>>, FALSE)
EvWrite(path, mode, content) == Ev("write", mode, path, content, FALSE)
EvFail(argv) == Ev("fail", argv, L("CalledProcessError"), <<>>, FALSE)

----------------------------------------------------------------------------
(* Steps: the statements of a stage, in program order.  A stage is a      *)
(* sequence of steps; Exec runs them as the interpreter runs the function.*)
(* try # 0 marks the steps of one try/except block, whose handler prints  *)
(* warn and resumes after the block.                                      *)

Step0 == [op |-> "print", argv |-> <<>>, s |-> <<>>, in |-> <<>>, dry |-> FALSE,
          eff |-> {}, try |-> 0, warn |-> <<>>, junk |-> 0, yes |-> FALSE,
          out |-> <<>>]

\* run_cmd without the early return of dry-run mode
run_cmd_ignoring_dry_run(cmd, dry) == [Step0 EXCEPT !.op = "run_cmd", !.argv = cmd, !.dry = FALSE]

run_cmd(cmd, dry) == [Step0 EXCEPT !.op = "run_cmd", !.argv = cmd, !.dry = dry]
\* run_cmd_capture: out is what the caller keeps of the output when the
\* command succeeds (the fstab lines it appends to its list)
run_cmd_capture(cmd) == [Step0 EXCEPT !.op = "capture", !.argv = cmd]
Keeps(step, lines) == [step EXCEPT !.out = lines]
run_in_chroot(cmd, dry) == run_cmd(<<L("chroot"), GENTOO_ROOT>> \o cmd, dry)
run_in_chroot_capture(cmd) == run_cmd_capture(<<L("chroot"), GENTOO_ROOT>> \o cmd)
Say(line) == [Step0 EXCEPT !.op = "print", !.s = line]
Makedirs(path) == [Step0 EXCEPT !.op = "makedirs", !.s = path]
\* open(path, mode).write(content); shutil.copy2 and os.symlink are writes of the target
WriteFile(path, mode, content) ==
    [Step0 EXCEPT !.op = "write", !.s = path, !.argv = <<L(mode)>>, !.in = content]
SysExit1(msg) == [Step0 EXCEPT !.op = "exit", !.s = msg]
Raise(exc) == [Step0 EXCEPT !.op = "raise", !.s = L(exc)]
\* a missing path that is only reported
RequireExists_lenient(path, msg) == [Step0 EXCEPT !.op = "print", !.s = msg]
\* sys.exit(1) with the message unless the path exists
RequireExists(path, msg) == [Step0 EXCEPT !.op = "require", !.s = path, !.in = msg]
FstabWrite(path, dry) == [Step0 EXCEPT !.op = "fstab_write", !.s = path, !.dry = dry]
\* the effect a command has on the filesystem when it really runs and succeeds
Creates(step, paths) == [step EXCEPT !.eff = paths]
\* the same steps without the try around them
InTry_uncaught(id, warn, steps) == steps
\* the steps of one try: ... except Exception as exc: print(warn)
InTry(id, warn, steps) == [i \in 1..Len(steps) |-> [steps[i] EXCEPT !.try = id, !.warn = warn]]

confirm(prompt, ans) == [Step0 EXCEPT !.op = "confirm", !.s = prompt,
                                      !.junk = ans.junk, !.yes = ans.yes]

\* _set_password that logs the payload it sends
_set_password_logged(username, password, dry) ==
    IF ~Truthy(password) THEN <<>>
    ELSE << [Step0 EXCEPT !.op = "set_password",
                          !.argv = <<L("chroot"), GENTOO_ROOT, L("chpasswd")>>,
                          !.s = <<"chpasswd ">> \o username \o <<":">> \o password,
                          !.in = username \o <<":">> \o password \o <<"\n">>,
                          !.dry = dry] >>

\* _set_password(username, password, dry_run): nothing for an empty password
_set_password(username, password, dry) ==
    IF ~Truthy(password) THEN <<>>
    ELSE << [Step0 EXCEPT !.op = "set_password",
                          !.argv = <<L("chroot"), GENTOO_ROOT, L("chpasswd")>>,
                          !.s = L("chpasswd (stdin redacted)"),
                          !.in = username \o <<":">> \o password \o <<"\n">>,
                          !.dry = dry] >>

----------------------------------------------------------------------------
(* The interpreter of steps *)

St0(f) == [log |-> <<>>, fs |-> f, status |-> "ok", skip |-> 0, failed |-> 0,
           acc |-> <<>>]

\* an exception that is reported and never propagates
Throw_swallowed(s, st) == [st EXCEPT !.log = Append(@, EvPrint(s.warn))]

\* an exception raised by step s: caught by the enclosing try, else fatal
Throw(s, st) ==
    IF s.try # 0
    THEN [st EXCEPT !.skip = s.try, !.log = Append(@, EvPrint(s.warn))]
    ELSE [st EXCEPT !.status = "raise"]

RECURSIVE AskJunk(_, _)
AskJunk(prompt, n) ==
    IF n = 0 THEN <<>>
    ELSE <<EvAsk(prompt, "?"), EvPrint(L("Please answer y or n."))>> \o AskJunk(prompt, n - 1)

\* one step; fails says that the external command of this step exits non-zero
DoStep(s, fails, st) ==
    CASE s.op = "print" -> [st EXCEPT !.log = Append(@, EvPrint(s.s))]
      [] s.op = "confirm" ->
            [st EXCEPT !.log = @ \o AskJunk(s.s, s.junk)
                                 \o <<EvAsk(s.s, IF s.yes THEN "y" ELSE "n")>>]
      [] s.op = "run_cmd" ->
            IF \E i \in 1..Len(s.argv) : s.argv[i] = None
            THEN Throw(s, st)   \* " ".join(cmd) raises TypeError
            ELSE LET line == EvLog(s.argv, JoinWith(<<" ">>, s.argv), s.dry) IN
                 IF s.dry THEN [st EXCEPT !.log = Append(@, line)]
                 ELSE LET t == [st EXCEPT !.log = @ \o <<line, EvSpawn("run_cmd", s.argv, <<>>)>>] IN
                      IF fails THEN Throw(s, [t EXCEPT !.failed = @ + 1, !.log = Append(@, EvFail(s.argv))])
                      ELSE [t EXCEPT !.fs = @ \cup s.eff]
      [] s.op = "capture" ->
            LET t == [st EXCEPT !.log = Append(@, EvSpawn("run_cmd_capture", s.argv, <<>>))] IN
            IF fails THEN Throw(s, [t EXCEPT !.failed = @ + 1, !.log = Append(@, EvFail(s.argv))])
            ELSE [t EXCEPT !.acc = @ \o s.out]
      [] s.op = "fstab_write" ->
            \* generate_fstab, lines 395-410
            IF st.acc = <<>>
            THEN [st EXCEPT !.log = Append(@, EvPrint(L("[WARN] No fstab entries were generated.")))]
            ELSE IF s.dry
            THEN [st EXCEPT !.log = Append(@, EvPrint(L("[INFO] Dry-run: not writing fstab file.")))]
            ELSE [st EXCEPT !.log = Append(@, EvWrite(s.s, <<L("w")>>, JoinWith(<<"\n">>, st.acc) \o <<"\n">>)),
                            !.fs = @ \cup {s.s}]
      [] s.op = "set_password" ->
            LET line == EvLog(s.argv, s.s, s.dry) IN
            IF s.dry THEN [st EXCEPT !.log = Append(@, line)]
            ELSE LET t == [st EXCEPT !.log = @ \o <<line, EvSpawn("_set_password", s.argv, s.in)>>] IN
                 IF fails THEN Throw(s, [t EXCEPT !.failed = @ + 1, !.log = Append(@, EvFail(s.argv))])
                 ELSE t
      [] s.op = "makedirs" ->
            [st EXCEPT !.log = Append(@, EvMkdir(s.s)), !.fs = @ \cup {s.s}]
      [] s.op = "write" ->
            [st EXCEPT !.log = Append(@, EvWrite(s.s, s.argv, s.in)), !.fs = @ \cup {s.s}]
      [] s.op = "require" ->
            IF s.s \in st.fs THEN st
            ELSE [st EXCEPT !.log = Append(@, EvPrint(s.in)), !.status = "exit"]
      [] s.op = "exit" ->
            [st EXCEPT !.log = Append(@, EvPrint(s.s)), !.status = "exit"]
      [] s.op = "raise" -> Throw(s, st)

RECURSIVE Exec(_, _, _, _)
Exec(steps, i, F, st) ==
    IF i > Len(steps) \/ st.status # "ok" THEN st
    ELSE IF steps[i].try # 0 /\ steps[i].try = st.skip THEN Exec(steps, i + 1, F, st)
    ELSE \* t is bound to the value of the step's outcome, computed once
         CHOOSE r \in {Exec(steps, i + 1, F, t) : t \in {DoStep(steps[i], i \in F, st)}} : TRUE

\* the steps of a stage that start an external process in this mode
Spawning(steps) ==
    {i \in 1..Len(steps) :
        \/ steps[i].op = "capture"
        \/ steps[i].op \in {"run_cmd", "set_password"} /\ ~steps[i].dry}

----------------------------------------------------------------------------
(* part_name and generate_fstab *)

\* part_name that knows the NVMe family only
part_name_nvme_only(disk, number) ==
    IF StartsWith(disk, <<"/", "dev", "/", "nvme">>)
    THEN disk \o <<"p", number>>
    ELSE disk \o <<number>>

part_name(disk, number) ==
    IF StartsWith(disk, <<"/", "dev", "/", "nvme">>) \/ StartsWith(disk, <<"/", "dev", "/", "mmcblk">>)
    THEN disk \o <<"p", number>>
    ELSE disk \o <<number>>

\* FstabLine that gives every filesystem the pass number 2
FstabLine_pass2(parts, root) ==
    IF Len(parts) # 4 THEN <<>>
    ELSE LET target == parts[2]
             rel == SubSeq(target, Len(root) + 1, Len(target))
             mountpoint == IF rel # <<>> THEN rel ELSE <<"/">>
         IN  IF parts[4] = <<>> \/ parts[3] = <<>> THEN <<>>
             ELSE IF ~StartsWith(target, root) THEN <<>>
             ELSE << <<"UUID=">> \o parts[4] \o <<" ">> \o mountpoint \o <<" ">> \o parts[3]
                     \o <<" ", "defaults", " ", "0", " ", "2">> >>

\* the fstab lines of one findmnt row (already split on whitespace): none or one
FstabLine(parts, root) ==
    IF Len(parts) # 4 THEN <<>>
    ELSE LET target == parts[2]
             fstype == parts[3]
             uuid == parts[4]
             rel == SubSeq(target, Len(root) + 1, Len(target))
             mountpoint == IF rel # <<>> THEN rel ELSE <<"/">>
             passno == IF mountpoint = <<"/">> THEN "1" ELSE "2"
         IN  IF uuid = <<>> \/ fstype = <<>> THEN <<>>
             ELSE IF ~StartsWith(target, root) THEN <<>>
             ELSE << <<"UUID=">> \o uuid \o <<" ">> \o mountpoint \o <<" ">> \o fstype
                     \o <<" ", "defaults", " ", "0", " ", passno>> >>

RECURSIVE FstabLines(_, _)
FstabLines(rows, root) ==
    IF rows = <<>> THEN <<>>
    ELSE FstabLine(rows[1], root) \o FstabLines(Tail(rows), root)

generate_fstab(c, dry, root, h) ==
    LET etc_dir == PathJoin(root, L("etc"))
        fstab_path == PathJoin(etc_dir, L("fstab"))
        findmnt == Keeps(run_cmd_capture(<<L("findmnt"), L("-R"), L("-no"),
                                           L("SOURCE,TARGET,FSTYPE,UUID"), root>>),
                         FstabLines(h.findmnt, root))
        swap_uuid == h.blkid
        blkid == Keeps(run_cmd_capture(<<L("blkid"), L("-s"), L("UUID"), L("-o"), L("value"),
                                         c.swap_partition>>),
                       IF swap_uuid # <<>>
                       THEN << <<"UUID=">> \o swap_uuid \o <<" ", "none", " ", "swap", " ", "sw",
                                                            " ", "0", " ", "0">> >>
                       ELSE <<>>)
    IN  <<Makedirs(etc_dir)>>
        \o InTry(1, L("[WARN] Could not auto-generate fstab from findmnt"), <<findmnt>>)
        \o (IF Truthy(c.swap_partition)
            THEN InTry(2, L("[WARN] Could not determine UUID for swap"), <<blkid>>)
            ELSE <<>>)
        \o <<FstabWrite(fstab_path, dry)>>

----------------------------------------------------------------------------
(* Stage 1: prepare_disks (called through mount_target) *)

RECURSIVE MkfsSteps_all_ext4(_, _)
\* the mkfs loop that formats every marked partition as ext4
MkfsSteps_all_ext4(fp, dry) ==
    IF fp = <<>> THEN <<>>
    ELSE <<run_cmd(<<L("mkfs.ext4"), fp[1][1]>>, dry)>> \o MkfsSteps_all_ext4(Tail(fp), dry)

RECURSIVE MkfsSteps(_, _)
\* for path, fs in cfg.format_partitions.items(): the mkfs of the marked filesystem
MkfsSteps(fp, dry) ==
    IF fp = <<>> THEN <<>>
    ELSE LET path == fp[1][1]
             fstype == fp[1][2]
         IN  (IF fstype = L("ext4") THEN <<run_cmd(<<L("mkfs.ext4"), path>>, dry)>>
              ELSE IF fstype = L("vfat") THEN <<run_cmd(<<L("mkfs.vfat"), L("-F32"), path>>, dry)>>
              ELSE <<>>)
             \o MkfsSteps(Tail(fp), dry)

BootDir == PathJoin(GENTOO_ROOT, L("boot"))

\* manual mode that formats the marked partitions whatever the operator replies
prepare_disks_manual_unconfirmed(c, dry, ans) ==
    IF ~Truthy(c.root_partition)
    THEN <<SysExit1(L("[ERROR] Manual disk mode selected but no root_partition set."))>>
    ELSE (IF c.format_partitions # <<>>
          THEN <<confirm(L("Proceed with formatting the above partitions? THIS WILL DESTROY DATA."), ans)>>
               \o MkfsSteps(c.format_partitions, dry)
          ELSE <<>>)
         \o << Creates(run_cmd(<<L("mkdir"), L("-p"), GENTOO_ROOT>>, dry), {GENTOO_ROOT}),
                run_cmd(<<L("mount"), c.root_partition, GENTOO_ROOT>>, dry) >>
         \o (IF Truthy(c.boot_partition)
             THEN << Creates(run_cmd(<<L("mkdir"), L("-p"), BootDir>>, dry), {BootDir}),
                     run_cmd(<<L("mount"), c.boot_partition, BootDir>>, dry) >>
             ELSE <<>>)

\* manual mode in which a missing root_partition is only reported
prepare_disks_manual_unchecked(c, dry, ans) ==
    (IF ~Truthy(c.root_partition)
     THEN <<Say(L("[ERROR] Manual disk mode selected but no root_partition set."))>>
     ELSE <<>>)
    \o (IF c.format_partitions # <<>>
        THEN <<confirm(L("Proceed with formatting the above partitions? THIS WILL DESTROY DATA."), ans)>>
             \o (IF ~ans.yes
                 THEN <<Say(L("User declined formatting; continuing without mkfs."))>>
                 ELSE MkfsSteps(c.format_partitions, dry))
        ELSE <<>>)
    \o << Creates(run_cmd(<<L("mkdir"), L("-p"), GENTOO_ROOT>>, dry), {GENTOO_ROOT}),
           run_cmd(<<L("mount"), c.root_partition, GENTOO_ROOT>>, dry) >>
    \o (IF Truthy(c.boot_partition)
        THEN << Creates(run_cmd(<<L("mkdir"), L("-p"), BootDir>>, dry), {BootDir}),
                run_cmd(<<L("mount"), c.boot_partition, BootDir>>, dry) >>
        ELSE <<>>)

\* manual mode that returns without mounting when the operator declines
prepare_disks_manual_decline_returns(c, dry, ans) ==
    IF ~Truthy(c.root_partition)
    THEN <<SysExit1(L("[ERROR] Manual disk mode selected but no root_partition set."))>>
    ELSE IF c.format_partitions # <<>> /\ ~ans.yes
    THEN << confirm(L("Proceed with formatting the above partitions? THIS WILL DESTROY DATA."), ans),
            Say(L("User declined formatting; continuing without mkfs.")) >>
    ELSE (IF c.format_partitions # <<>>
          THEN <<confirm(L("Proceed with formatting the above partitions? THIS WILL DESTROY DATA."), ans)>>
               \o MkfsSteps(c.format_partitions, dry)
          ELSE <<>>)
         \o << Creates(run_cmd(<<L("mkdir"), L("-p"), GENTOO_ROOT>>, dry), {GENTOO_ROOT}),
                run_cmd(<<L("mount"), c.root_partition, GENTOO_ROOT>>, dry) >>
         \o (IF Truthy(c.boot_partition)
             THEN << Creates(run_cmd(<<L("mkdir"), L("-p"), BootDir>>, dry), {BootDir}),
                     run_cmd(<<L("mount"), c.boot_partition, BootDir>>, dry) >>
             ELSE <<>>)

prepare_disks_manual(c, dry, ans) ==
    IF ~Truthy(c.root_partition)
    THEN <<SysExit1(L("[ERROR] Manual disk mode selected but no root_partition set."))>>
    ELSE (IF c.format_partitions # <<>>
          THEN <<confirm(L("Proceed with formatting the above partitions? THIS WILL DESTROY DATA."), ans)>>
               \o (IF ~ans.yes
                   THEN <<Say(L("User declined formatting; continuing without mkfs."))>>
                   ELSE MkfsSteps(c.format_partitions, dry))
          ELSE <<>>)
         \o << Creates(run_cmd(<<L("mkdir"), L("-p"), GENTOO_ROOT>>, dry), {GENTOO_ROOT}),
                run_cmd(<<L("mount"), c.root_partition, GENTOO_ROOT>>, dry) >>
         \o (IF Truthy(c.boot_partition)
             THEN << Creates(run_cmd(<<L("mkdir"), L("-p"), BootDir>>, dry), {BootDir}),
                     run_cmd(<<L("mount"), c.boot_partition, BootDir>>, dry) >>
             ELSE <<>>)

\* auto mode that formats the root partition with the requested root_fs
prepare_disks_auto_root_fs(c, dry, ans) ==
    <<confirm(<<"This will erase ALL data on ">> \o Fmt(c.target_disk) \o <<". Continue?">>, ans)>>
    \o (IF ~ans.yes THEN <<Say(L("Skipping disk preparation."))>>
        ELSE IF c.target_disk = None THEN <<Raise("AttributeError")>>
        ELSE IF UefiOn(c)
        THEN LET boot_part == part_name(c.target_disk, "1")
                 root_part == part_name(c.target_disk, "2")
             IN << run_cmd(<<L("parted"), c.target_disk, L("--script"), L("mklabel"), L("gpt")>>, dry),
                   run_cmd(<<L("parted"), c.target_disk, L("--script"), L("mkpart"), L("ESP"),
                             L("fat32"), L("1MiB"), L("513MiB")>>, dry),
                   run_cmd(<<L("parted"), c.target_disk, L("--script"), L("set"), L("1"),
                             L("boot"), L("on")>>, dry),
                   run_cmd(<<L("parted"), c.target_disk, L("--script"), L("mkpart"), L("primary"),
                             c.root_fs, L("513MiB"), L("100%")>>, dry),
                   run_cmd(<<L("mkfs.vfat"), L("-F32"), boot_part>>, dry),
                   run_cmd(<<<<"mkfs.">> \o c.root_fs, root_part>>, dry),
                   Creates(run_cmd(<<L("mkdir"), L("-p"), GENTOO_ROOT>>, dry), {GENTOO_ROOT}),
                   run_cmd(<<L("mount"), root_part, GENTOO_ROOT>>, dry),
                   Creates(run_cmd(<<L("mkdir"), L("-p"), BootDir>>, dry), {BootDir}),
                   run_cmd(<<L("mount"), boot_part, BootDir>>, dry) >>
        ELSE LET root_part == part_name(c.target_disk, "1")
             IN << run_cmd(<<L("parted"), c.target_disk, L("--script"), L("mklabel"), L("msdos")>>, dry),
                   run_cmd(<<L("parted"), c.target_disk, L("--script"), L("mkpart"), L("primary"),
                             c.root_fs, L("1MiB"), L("100%")>>, dry),
                   run_cmd(<<<<"mkfs.">> \o c.root_fs, root_part>>, dry),
                   Creates(run_cmd(<<L("mkdir"), L("-p"), GENTOO_ROOT>>, dry), {GENTOO_ROOT}),
                   run_cmd(<<L("mount"), root_part, GENTOO_ROOT>>, dry) >>)

prepare_disks_auto(c, dry, ans) ==
    <<confirm(<<"This will erase ALL data on ">> \o Fmt(c.target_disk) \o <<". Continue?">>, ans)>>
    \o (IF ~ans.yes THEN <<Say(L("Skipping disk preparation."))>>
        ELSE (IF c.root_fs # L("ext4")
              THEN <<Say(L("[WARN] Only ext4 is implemented right now; using ext4 for root."))>>
              ELSE <<>>)
             \o (IF c.target_disk = None
                 THEN <<Raise("AttributeError")>>   \* part_name: None has no startswith
                 ELSE IF UefiOn(c)
                 THEN LET boot_part == part_name(c.target_disk, "1")
                          root_part == part_name(c.target_disk, "2")
                      IN << run_cmd(<<L("parted"), c.target_disk, L("--script"), L("mklabel"), L("gpt")>>, dry),
                            run_cmd(<<L("parted"), c.target_disk, L("--script"), L("mkpart"), L("ESP"),
                                      L("fat32"), L("1MiB"), L("513MiB")>>, dry),
                            run_cmd(<<L("parted"), c.target_disk, L("--script"), L("set"), L("1"),
                                      L("boot"), L("on")>>, dry),
                            run_cmd(<<L("parted"), c.target_disk, L("--script"), L("mkpart"), L("primary"),
                                      L("ext4"), L("513MiB"), L("100%")>>, dry),
                            run_cmd(<<L("mkfs.vfat"), L("-F32"), boot_part>>, dry),
                            run_cmd(<<L("mkfs.ext4"), root_part>>, dry),
                            Creates(run_cmd(<<L("mkdir"), L("-p"), GENTOO_ROOT>>, dry), {GENTOO_ROOT}),
                            run_cmd(<<L("mount"), root_part, GENTOO_ROOT>>, dry),
                            Creates(run_cmd(<<L("mkdir"), L("-p"), BootDir>>, dry), {BootDir}),
                            run_cmd(<<L("mount"), boot_part, BootDir>>, dry) >>
                 ELSE LET root_part == part_name(c.target_disk, "1")
                      IN << run_cmd(<<L("parted"), c.target_disk, L("--script"), L("mklabel"), L("msdos")>>, dry),
                            run_cmd(<<L("parted"), c.target_disk, L("--script"), L("mkpart"), L("primary"),
                                      L("ext4"), L("1MiB"), L("100%")>>, dry),
                            run_cmd(<<L("mkfs.ext4"), root_part>>, dry),
                            Creates(run_cmd(<<L("mkdir"), L("-p"), GENTOO_ROOT>>, dry), {GENTOO_ROOT}),
                            run_cmd(<<L("mount"), root_part, GENTOO_ROOT>>, dry) >>))

\* disk preparation that formats the partitions after it has mounted them
prepare_disks_formatting_last(c, dry, ans) ==
    LET steps == IF c.disk_mode = L("manual") THEN prepare_disks_manual(c, dry, ans)
                 ELSE prepare_disks_auto(c, dry, ans)
        IsMkfsStep(st) == st.op = "run_cmd" /\ st.argv[1] \in {L("mkfs.ext4"), L("mkfs.vfat")}
        IsOtherStep(st) == ~IsMkfsStep(st)
    IN  SelectSeq(steps, IsOtherStep) \o SelectSeq(steps, IsMkfsStep)

\* disk preparation that writes a new label on the root partition's disk in manual mode too
prepare_disks_relabelling(c, dry, ans) ==
    IF c.disk_mode = L("manual")
    THEN <<run_cmd(<<L("parted"), Fmt(c.root_partition), L("--script"), L("mklabel"), L("gpt")>>, dry)>>
         \o prepare_disks_manual(c, dry, ans)
    ELSE prepare_disks_auto(c, dry, ans)

prepare_disks(c, dry, ans) ==
    IF c.disk_mode = L("manual") THEN prepare_disks_manual(c, dry, ans)
    ELSE prepare_disks_auto(c, dry, ans)

\* does prepare_disks call confirm() for this config
AsksConfirm(c) ==
    IF c.disk_mode = L("manual") THEN Truthy(c.root_partition) /\ c.format_partitions # <<>>
    ELSE TRUE

----------------------------------------------------------------------------
(* Stage 2: install_stage3 *)

IsUrl(source) ==
    \/ StartsWith(source, <<"http:", "/", "/">>)
    \/ StartsWith(source, <<"https:", "/", "/">>)

\* a download destination that is a fresh scratch name in every run
DownloadDest_fresh(source) == PathJoin(<<"/", "tmp">>, <<"stage3-", NumStr(run)>>)

\* where a URL source is downloaded to
DownloadDest(source) ==
    PathJoin(<<"/", "tmp">>,
             IF Basename(source) # <<>> THEN Basename(source) ELSE L("gentoo-stage3.tar.xz"))

\* install_stage3 that prefers the environment variable to the config's source
install_stage3_env_first(c, dry, env, h) ==
    LET source == IF Truthy(env.GENTOO_STAGE3_TARBALL) THEN env.GENTOO_STAGE3_TARBALL ELSE c.stage3_source
        dest == DownloadDest(source)
        tarball == IF IsUrl(source) THEN dest ELSE source
    IN  <<Makedirs(GENTOO_ROOT)>>
        \o (IF ~Truthy(source)
            THEN <<Say(L("[WARN] No stage3 source configured. Skipping extraction."))>>
            ELSE (IF IsUrl(source)
                  THEN <<Creates(run_cmd(<<L("wget"), L("-O"), dest, source>>, dry), {dest})>>
                  ELSE <<>>)
                 \o <<RequireExists(tarball, <<"[ERROR] Stage3 tarball not found: ">> \o tarball)>>
                 \o <<run_cmd(<<L("tar"), L("xpf"), tarball, L("-C"), GENTOO_ROOT,
                                L("--xattrs-include=*"), L("--numeric-owner")>>, dry)>>
                 \o generate_fstab(c, dry, GENTOO_ROOT, h))

install_stage3(c, dry, env, h) ==
    LET source == IF Truthy(c.stage3_source) THEN c.stage3_source ELSE env.GENTOO_STAGE3_TARBALL
        dest == DownloadDest(source)
        tarball == IF IsUrl(source) THEN dest ELSE source
    IN  <<Makedirs(GENTOO_ROOT)>>
        \o (IF ~Truthy(source)
            THEN <<Say(L("[WARN] No stage3 source configured. Skipping extraction."))>>
            ELSE (IF IsUrl(source)
                  THEN <<Creates(run_cmd(<<L("wget"), L("-O"), dest, source>>, dry), {dest})>>
                  ELSE <<>>)
                 \o <<RequireExists(tarball, <<"[ERROR] Stage3 tarball not found: ">> \o tarball)>>
                 \o <<run_cmd(<<L("tar"), L("xpf"), tarball, L("-C"), GENTOO_ROOT,
                                L("--xattrs-include=*"), L("--numeric-owner")>>, dry)>>
                 \o generate_fstab(c, dry, GENTOO_ROOT, h))

----------------------------------------------------------------------------
(* Stage 3: configure_base_system, with setup_chroot and install_kernel *)

EtcDir == PathJoin(GENTOO_ROOT, L("etc"))
EtcFile(name) == PathJoin(EtcDir, L(name))
PortageDir == PathJoin(EtcDir, L("portage"))
MakeConf == PathJoin(PortageDir, <<"make", ".", "conf">>)
HostResolv == <<"/", "etc", "/", "resolv", ".", "conf">>
ReposSrc == GENTOO_ROOT \o <<"/", "usr", "/", "share", "/", "portage", "/", "config", "/",
                             "repos", ".", "conf">>
ReposDstDir == PathJoin(PortageDir, <<"repos", ".", "conf">>)

\* setup_chroot_mounts that makes the three bind mounts before it marks any of them rslave
setup_chroot_mounts_binds_first(dry, root) ==
    << run_cmd(<<L("mount"), L("--types"), L("proc"), <<"/", "proc">>, PathJoin(root, L("proc"))>>, dry),
       run_cmd(<<L("mount"), L("--rbind"), <<"/", "sys">>, PathJoin(root, L("sys"))>>, dry),
       run_cmd(<<L("mount"), L("--rbind"), <<"/", "dev">>, PathJoin(root, L("dev"))>>, dry),
       run_cmd(<<L("mount"), L("--rbind"), <<"/", "run">>, PathJoin(root, L("run"))>>, dry),
       run_cmd(<<L("mount"), L("--make-rslave"), PathJoin(root, L("sys"))>>, dry),
       run_cmd(<<L("mount"), L("--make-rslave"), PathJoin(root, L("dev"))>>, dry),
       run_cmd(<<L("mount"), L("--make-rslave"), PathJoin(root, L("run"))>>, dry) >>

setup_chroot_mounts(dry, root) ==
    << run_cmd(<<L("mount"), L("--types"), L("proc"), <<"/", "proc">>, PathJoin(root, L("proc"))>>, dry),
       run_cmd(<<L("mount"), L("--rbind"), <<"/", "sys">>, PathJoin(root, L("sys"))>>, dry),
       run_cmd(<<L("mount"), L("--make-rslave"), PathJoin(root, L("sys"))>>, dry),
       run_cmd(<<L("mount"), L("--rbind"), <<"/", "dev">>, PathJoin(root, L("dev"))>>, dry),
       run_cmd(<<L("mount"), L("--make-rslave"), PathJoin(root, L("dev"))>>, dry),
       run_cmd(<<L("mount"), L("--rbind"), <<"/", "run">>, PathJoin(root, L("run"))>>, dry),
       run_cmd(<<L("mount"), L("--make-rslave"), PathJoin(root, L("run"))>>, dry) >>

setup_chroot(c, dry, root, f) ==
    setup_chroot_mounts(dry, root)
    \o (IF HostResolv \in f /\ ~dry
        THEN << Makedirs(PathJoin(root, L("etc"))),
                WriteFile(PathJoin(PathJoin(root, L("etc")), <<"resolv", ".", "conf">>), "w",
                          L("copy of ") \o HostResolv) >>
        ELSE <<>>)

\* install_kernel that installs the distribution kernel for a mode it does not know
install_kernel_default_dist(c, dry) ==
    InTry(7, L("[WARN] Failed to install linux-firmware"),
          <<run_in_chroot(<<L("emerge"), L("--quiet-build=n"), L("sys-kernel/linux-firmware")>>, dry)>>)
    \o (IF c.kernel = L("dist-kernel")
        THEN <<run_in_chroot(<<L("emerge"), L("--quiet-build=n"), L("sys-kernel/gentoo-kernel-bin")>>, dry)>>
        ELSE IF c.kernel = L("genkernel")
        THEN << run_in_chroot(<<L("emerge"), L("sys-kernel/gentoo-sources"), L("sys-kernel/genkernel")>>, dry),
                run_in_chroot(<<L("genkernel"), L("all")>>, dry) >>
        ELSE IF c.kernel = L("manual")
        THEN << run_in_chroot(<<L("emerge"), L("sys-kernel/gentoo-sources")>>, dry),
                Say(L("[INFO] Manual kernel mode selected")) >>
        ELSE << Say(<<"[WARN] Unknown kernel mode: ">> \o Fmt(c.kernel) \o <<"; skipping kernel installation.">>),
                run_in_chroot(<<L("emerge"), L("--quiet-build=n"), L("sys-kernel/gentoo-kernel-bin")>>, dry) >>)

install_kernel(c, dry) ==
    InTry(7, L("[WARN] Failed to install linux-firmware"),
          <<run_in_chroot(<<L("emerge"), L("--quiet-build=n"), L("sys-kernel/linux-firmware")>>, dry)>>)
    \o (IF c.kernel = L("dist-kernel")
        THEN <<run_in_chroot(<<L("emerge"), L("--quiet-build=n"), L("sys-kernel/gentoo-kernel-bin")>>, dry)>>
        ELSE IF c.kernel = L("genkernel")
        THEN << run_in_chroot(<<L("emerge"), L("sys-kernel/gentoo-sources"), L("sys-kernel/genkernel")>>, dry),
                run_in_chroot(<<L("genkernel"), L("all")>>, dry) >>
        ELSE IF c.kernel = L("manual")
        THEN << run_in_chroot(<<L("emerge"), L("sys-kernel/gentoo-sources")>>, dry),
                Say(L("[INFO] Manual kernel mode selected")) >>
        ELSE <<Say(<<"[WARN] Unknown kernel mode: ">> \o Fmt(c.kernel) \o <<"; skipping kernel installation.">>)>>)

configure_base_system(c, dry, env, h, f) ==
    LET lang == IF Truthy(c.language) THEN c.language ELSE L("en_US")
        locale_id == IF Contains(lang, ".") THEN lang ELSE lang \o <<".", "UTF-8">>
        timezone == IF env.GENTOO_TIMEZONE = None THEN L("UTC") ELSE env.GENTOO_TIMEZONE
        jobsN == IF c.makeopts_jobs # 0 THEN c.makeopts_jobs
                 ELSE IF h.cpu_count # 0 THEN h.cpu_count ELSE 2
        jobs == NumStr(jobsN)
        accept_license == IF env.GENTOO_ACCEPT_LICENSE = None
                          THEN L("-* @FREE @BINARY-REDISTRIBUTABLE")
                          ELSE env.GENTOO_ACCEPT_LICENSE
        \* the source writes "\\n" in these f-strings: a backslash and the letter n
        bsn == <<"\\", "n">>
        emerge_opts == <<"--jobs=", jobs, " ", "--load-average=", jobs>>
                       \o (IF c.emerge_keep_going THEN <<" ", "--keep-going">> ELSE <<>>)
        make_conf == <<"MAKEOPTS=\"-j", jobs, "\"">> \o bsn
                     \o <<"EMERGE_DEFAULT_OPTS=\"">> \o emerge_opts \o <<"\"">> \o bsn
                     \o (IF c.features_parallel_fetch
                         THEN <<"FEATURES=\"", "parallel-fetch", "\"">> \o bsn ELSE <<>>)
                     \o <<"ACCEPT_LICENSE=\"">> \o accept_license \o <<"\"">> \o bsn
    IN  setup_chroot(c, dry, GENTOO_ROOT, f)
        \* hostname & hosts
        \o (IF Truthy(c.hostname) /\ ~dry
            THEN << Makedirs(EtcDir),
                    WriteFile(EtcFile("hostname"), "w", c.hostname \o <<"\n">>),
                    WriteFile(EtcFile("hosts"), "w",
                              <<"127.0.0.1\tlocalhost", "\n", "127.0.1.1\t">> \o c.hostname
                              \o <<"\n", "::1\tlocalhost ip6-localhost ip6-loopback", "\n">>) >>
            ELSE <<>>)
        \* locale
        \o (IF ~dry
            THEN << Makedirs(EtcDir),
                    WriteFile(PathJoin(EtcDir, <<"locale", ".", "gen">>), "w",
                              locale_id \o <<" ", "UTF-8", "\n">>) >>
            ELSE <<>>)
        \o <<run_in_chroot(<<L("locale-gen")>>, dry)>>
        \o (IF ~dry
            THEN <<WriteFile(PathJoin(EtcDir, <<"locale", ".", "conf">>), "w",
                             <<"LANG=">> \o locale_id \o <<"\n">>)>>
            ELSE <<>>)
        \* timezone
        \o (IF ~dry THEN <<WriteFile(EtcFile("timezone"), "w", timezone \o <<"\n">>)>> ELSE <<>>)
        \o InTry(3, L("[WARN] Failed to run timezone-data config"),
                 <<run_in_chroot(<<L("emerge"), L("--config"), L("sys-libs/timezone-data")>>, dry)>>)
        \* make.conf
        \o (IF ~dry THEN <<Makedirs(PortageDir), WriteFile(MakeConf, "a", make_conf)>> ELSE <<>>)
        \* mirrorselect
        \o InTry(4, L("[WARN] mirrorselect not available or failed"),
                 <<run_cmd_capture(<<L("mirrorselect"), L("-D"), L("-s4"), L("-o")>>)>>
                 \o (IF h.mirrorselect # <<>> /\ ~dry
                     THEN <<WriteFile(MakeConf, "a", <<"\n">> \o h.mirrorselect \o <<"\n">>)>>
                     ELSE <<>>))
        \* repos.conf
        \o (IF ReposSrc \in f
            THEN (IF ~dry
                  THEN << Makedirs(ReposDstDir),
                          WriteFile(PathJoin(ReposDstDir, <<"gentoo", ".", "conf">>), "w",
                                    L("copy of ") \o ReposSrc) >>
                  ELSE <<>>)
            ELSE <<Say(L("[WARN] Portage repos.conf template not found"))>>)
        \* emerge --sync
        \o InTry(5, L("[WARN] Failed to sync Portage tree"),
                 <<run_in_chroot(<<L("emerge"), L("--sync")>>, dry)>>)
        \* CPU flags
        \o InTry(6, L("[WARN] Failed to configure CPU_FLAGS_X86 via cpuid2cpuflags"),
                 <<run_in_chroot(<<L("emerge"), L("--noreplace"), L("app-portage/cpuid2cpuflags")>>, dry)>>
                 \o (IF ~dry
                     THEN <<run_in_chroot_capture(<<L("cpuid2cpuflags")>>)>>
                          \o (IF h.cpuid # <<>> /\ Contains(h.cpuid, "CPU_FLAGS_X86")
                              THEN <<WriteFile(MakeConf, "a", h.cpuid \o <<"\n">>)>>
                              ELSE <<Say(L("[WARN] cpuid2cpuflags did not produce expected CPU_FLAGS_X86 line"))>>)
                     ELSE <<>>))
        \* /etc/mtab
        \o (IF ~dry
            THEN <<WriteFile(EtcFile("mtab"), "w", L("symlink to /proc/self/mounts"))>>
            ELSE <<>>)
        \o install_kernel(c, dry)

----------------------------------------------------------------------------
(* Stage 4: install_bootloader *)

\* install_bootloader that writes the grub configuration before it installs grub to the disk
install_bootloader_mkconfig_first(c, dry) ==
    IF c.bootloader = L("systemd-boot")
    THEN IF ~UefiOn(c)
         THEN <<Say(L("[WARN] systemd-boot selected but UEFI is disabled; skipping."))>>
         ELSE <<run_in_chroot(<<L("bootctl"), L("--path=/boot"), L("install")>>, dry)>>
    ELSE IF c.bootloader = L("grub")
    THEN <<run_in_chroot(<<L("emerge"), L("sys-boot/grub")>>, dry)>>
         \o <<run_in_chroot(<<L("grub-mkconfig"), L("-o"), L("/boot/grub/grub.cfg")>>, dry)>>
         \o (IF UefiOn(c)
             THEN <<run_in_chroot(<<L("grub-install"), L("--target=x86_64-efi"),
                                    L("--efi-directory=/boot"), L("--bootloader-id=Gentoo")>>, dry)>>
             ELSE <<run_in_chroot(<<L("grub-install"), c.target_disk>>, dry)>>)
    ELSE <<Say(<<"[WARN] Bootloader ">> \o Fmt(c.bootloader) \o <<" is not yet implemented; skipping.">>)>>

install_bootloader(c, dry) ==
    IF c.bootloader = L("systemd-boot")
    THEN IF ~UefiOn(c)
         THEN <<Say(L("[WARN] systemd-boot selected but UEFI is disabled; skipping."))>>
         ELSE <<run_in_chroot(<<L("bootctl"), L("--path=/boot"), L("install")>>, dry)>>
    ELSE IF c.bootloader = L("grub")
    THEN <<run_in_chroot(<<L("emerge"), L("sys-boot/grub")>>, dry)>>
         \o (IF UefiOn(c)
             THEN <<run_in_chroot(<<L("grub-install"), L("--target=x86_64-efi"),
                                    L("--efi-directory=/boot"), L("--bootloader-id=Gentoo")>>, dry)>>
             ELSE <<run_in_chroot(<<L("grub-install"), c.target_disk>>, dry)>>)
         \o <<run_in_chroot(<<L("grub-mkconfig"), L("-o"), L("/boot/grub/grub.cfg")>>, dry)>>
    ELSE <<Say(<<"[WARN] Bootloader ">> \o Fmt(c.bootloader) \o <<" is not yet implemented; skipping.">>)>>

----------------------------------------------------------------------------
(* Stage 5: install_desktop_environment *)

DESKTOP_PROFILES ==
    [ none |-> [name |-> L("none"), packages |-> <<>>, services |-> <<>>],
      gnome |-> [name |-> L("gnome"), packages |-> <<L("gnome-base/gnome")>>, services |-> <<L("gdm")>>],
      plasma |-> [name |-> L("plasma"), packages |-> <<L("kde-plasma/plasma-meta")>>,
                  services |-> <<L("sddm")>>],
      xfce |-> [name |-> L("xfce"), packages |-> <<L("xfce-base/xfce4-meta")>>,
                services |-> <<L("lightdm")>>] ]

\* DESKTOP_PROFILES.get(key) finds a profile
KnownProfile(key) == Len(key) = 1 /\ key[1] \in DOMAIN DESKTOP_PROFILES

install_desktop_environment(c, dry) ==
    LET profile == DESKTOP_PROFILES[c.desktop_profile[1]] IN
    IF ~KnownProfile(c.desktop_profile)
    THEN <<Say(<<"Unknown desktop profile: ">> \o Fmt(c.desktop_profile) \o <<", skipping.">>)>>
    ELSE IF profile.name = L("none")
    THEN <<Say(L("No desktop environment selected; leaving system console-only."))>>
    ELSE (IF profile.packages # <<>>
          THEN <<run_in_chroot(<<L("emerge"), L("--quiet-build=n")>> \o profile.packages, dry)>>
          ELSE <<>>)
         \o [i \in 1..Len(profile.services) |->
                run_in_chroot(<<L("systemctl"), L("enable"), profile.services[i]>>, dry)]

----------------------------------------------------------------------------
(* Stage 6: finalize_install *)

\* finalize_install that sets the user's password before it creates the user
finalize_install_password_first(c, dry) ==
    (IF Truthy(c.root_password) THEN _set_password(L("root"), c.root_password, dry) ELSE <<>>)
    \o (IF Truthy(c.username)
        THEN (IF Truthy(c.user_password) THEN _set_password(c.username, c.user_password, dry)
              ELSE <<>>)
             \o <<run_in_chroot(<<L("useradd"), L("-m"), L("-G"), L("wheel,audio,video"), L("-s"),
                                  L("/bin/bash"), c.username>>, dry)>>
        ELSE <<>>)
    \o (IF c.user_is_sudoer
        THEN <<run_in_chroot(<<L("emerge"), L("--noreplace"), L("sudo")>>, dry)>>
             \o (IF ~dry
                 THEN << Makedirs(PathJoin(EtcDir, <<"sudoers", ".", "d">>)),
                         WriteFile(PathJoin(PathJoin(EtcDir, <<"sudoers", ".", "d">>), L("10-wheel")), "w",
                                   <<"%wheel ALL=(ALL:ALL) ALL", "\n">>) >>
                 ELSE <<>>)
        ELSE <<>>)
    \o (IF c.network_mode \in {L("nm_default"), L("nm_iwd")}
        THEN << run_in_chroot(<<L("emerge"), L("--quiet-build=n"), L("net-misc/networkmanager")>>
                              \o (IF c.network_mode = L("nm_iwd") THEN <<L("net-wireless/iwd")>> ELSE <<>>),
                              dry),
                run_in_chroot(<<L("systemctl"), L("enable"), L("NetworkManager")>>, dry) >>
             \o (IF c.network_mode = L("nm_iwd")
                 THEN <<run_in_chroot(<<L("systemctl"), L("enable"), L("iwd")>>, dry)>>
                 ELSE <<>>)
        ELSE <<>>)
    \o <<run_in_chroot(<<L("systemctl"), L("enable"), L("systemd-timesyncd")>>, dry)>>
    \o (IF Truthy(c.swap_partition)
        THEN <<Say(<<"[INFO] Swap partition configured: ">> \o c.swap_partition)>>
        ELSE <<>>)
    \o <<Say(L("[INFO] Finalization complete. You can now unmount and reboot into Gentoo."))>>


finalize_install(c, dry) ==
    (IF Truthy(c.root_password) THEN _set_password(L("root"), c.root_password, dry) ELSE <<>>)
    \o (IF Truthy(c.username)
        THEN <<run_in_chroot(<<L("useradd"), L("-m"), L("-G"), L("wheel,audio,video"), L("-s"),
                               L("/bin/bash"), c.username>>, dry)>>
             \o (IF Truthy(c.user_password) THEN _set_password(c.username, c.user_password, dry)
                 ELSE <<>>)
        ELSE <<>>)
    \o (IF c.user_is_sudoer
        THEN <<run_in_chroot(<<L("emerge"), L("--noreplace"), L("sudo")>>, dry)>>
             \o (IF ~dry
                 THEN << Makedirs(PathJoin(EtcDir, <<"sudoers", ".", "d">>)),
                         WriteFile(PathJoin(PathJoin(EtcDir, <<"sudoers", ".", "d">>), L("10-wheel")), "w",
                                   <<"%wheel ALL=(ALL:ALL) ALL", "\n">>) >>
                 ELSE <<>>)
        ELSE <<>>)
    \o (IF c.network_mode \in {L("nm_default"), L("nm_iwd")}
        THEN << run_in_chroot(<<L("emerge"), L("--quiet-build=n"), L("net-misc/networkmanager")>>
                              \o (IF c.network_mode = L("nm_iwd") THEN <<L("net-wireless/iwd")>> ELSE <<>>),
                              dry),
                run_in_chroot(<<L("systemctl"), L("enable"), L("NetworkManager")>>, dry) >>
             \o (IF c.network_mode = L("nm_iwd")
                 THEN <<run_in_chroot(<<L("systemctl"), L("enable"), L("iwd")>>, dry)>>
                 ELSE <<>>)
        ELSE <<>>)
    \o <<run_in_chroot(<<L("systemctl"), L("enable"), L("systemd-timesyncd")>>, dry)>>
    \o (IF Truthy(c.swap_partition)
        THEN <<Say(<<"[INFO] Swap partition configured: ">> \o c.swap_partition)>>
        ELSE <<>>)
    \o <<Say(L("[INFO] Finalization complete. You can now unmount and reboot into Gentoo."))>>

----------------------------------------------------------------------------
(* The configurations, environments and hosts that are enumerated *)

Sda == <<"/", "dev", "/", "sd", "a">>
Nvme == <<"/", "dev", "/", "nvme", "0n1">>
Sda1 == Sda \o <<"1">>
Sda2 == Sda \o <<"2">>
Sda3 == Sda \o <<"3">>
LocalTar == <<"/", "root", "/", "stage3", ".", "tar", ".", "xz">>
MissingTar == <<"/", "root", "/", "missing", ".", "tar", ".", "xz">>
UrlTar == <<"https:", "/", "/", "mirror", "/", "stage3", ".", "tar", ".", "xz">>
TmpTar == <<"/", "tmp", "/", "stage3", ".", "tar", ".", "xz">>
UrlDir == <<"http:", "/", "/", "mirror", "/", "latest", "/">>

\* a complete configuration: automatic UEFI layout on /dev/sda, local stage3
Base ==
    [DefaultConfig EXCEPT !.stage3_source = LocalTar, !.target_disk = Sda, !.use_uefi = "True",
                          !.desktop_profile = L("none"), !.hostname = L("gentoo"),
                          !.username = L("user"), !.root_password = L("secret1"),
                          !.user_password = L("secret2")]

Tri == {"None", "True", "False"}

AutoConfigs ==
    {[Base EXCEPT !.target_disk = d, !.root_fs = r, !.use_uefi = u] :
        d \in {None, Sda, Nvme}, r \in {L("ext4"), L("btrfs")}, u \in Tri}

FormatPlans ==
    { <<>>, << <<Sda2, L("ext4")>> >>, << <<Sda1, L("vfat")>>, <<Sda2, L("ext4")>> >>,
      << <<Sda3, L("btrfs")>> >> }

ManualConfigs ==
    {[Base EXCEPT !.disk_mode = L("manual"), !.root_partition = r, !.boot_partition = b,
                  !.format_partitions = fp, !.use_uefi = u] :
        r \in {None, Sda2}, b \in {None, Sda1}, fp \in FormatPlans, u \in {"True", "False"}}

SourceConfigs ==
    {[Base EXCEPT !.stage3_source = s, !.swap_partition = w] :
        s \in {None, LocalTar, MissingTar, UrlTar, UrlDir}, w \in {None, Sda3}}

BootConfigs ==
    {[Base EXCEPT !.bootloader = b, !.use_uefi = u, !.target_disk = d] :
        b \in {L("systemd-boot"), L("grub"), L("refind")}, u \in Tri, d \in {Sda, None}}
    \cup
    {[Base EXCEPT !.bootloader = b, !.use_uefi = u, !.disk_mode = L("manual"),
                  !.target_disk = None, !.root_partition = Sda2] :
        b \in {L("systemd-boot"), L("grub"), L("refind")}, u \in {"True", "False"}}

SystemConfigs ==
    {[Base EXCEPT !.kernel = k] : k \in {L("dist-kernel"), L("genkernel"), L("manual"), L("custom")}}
    \cup {[Base EXCEPT !.desktop_profile = p] : p \in {None, L("none"), L("gnome"), L("kde")}}
    \cup {[Base EXCEPT !.network_mode = n] : n \in {L("copy_iso"), L("nm_default"), L("nm_iwd")}}
    \cup {[Base EXCEPT !.language = l] : l \in {<<>>, L("pl_PL"), <<"C", ".", "UTF-8">>}}
    \cup {[Base EXCEPT !.hostname = None], [Base EXCEPT !.makeopts_jobs = 3],
          [Base EXCEPT !.emerge_keep_going = TRUE, !.features_parallel_fetch = FALSE]}

AccountConfigs ==
    {[Base EXCEPT !.username = n, !.root_password = rp, !.user_password = up,
                  !.user_is_sudoer = s, !.swap_partition = w] :
        n \in {None, L("user")}, rp \in {None, L("secret1")}, up \in {None, L("secret2")},
        s \in BOOLEAN, w \in {None, Sda3}}

Configs == AutoConfigs \cup ManualConfigs \cup SourceConfigs \cup BootConfigs
           \cup SystemConfigs \cup AccountConfigs \cup {DefaultConfig}

Env0 == [GENTOO_STAGE3_TARBALL |-> None, GENTOO_TIMEZONE |-> None, GENTOO_ACCEPT_LICENSE |-> None]

\* findmnt -R -no SOURCE,TARGET,FSTYPE,UUID /mnt/gentoo with root and boot mounted
MountRows ==
    << <<Sda2, GENTOO_ROOT, L("ext4"), L("ABCD")>>,
       <<Sda1, BootDir, L("vfat"), L("EF01")>> >>

\* flaky says that external commands can exit non-zero on this machine
Host0 == [findmnt |-> MountRows, blkid |-> L("9999"),
          mirrorselect |-> L("GENTOO_MIRRORS=\"https://mirror\""),
          cpuid |-> <<"CPU_FLAGS_X86", ": ", "sse", " ", "sse2">>, cpu_count |-> 4,
          flaky |-> FALSE]

Fs0 == {HostResolv, LocalTar}

\* a scenario: the configuration together with the machine it is run on
Scenario(c, e, h, f) == [cfg |-> c, environ |-> e, host |-> h, fs |-> f]

\* the configurations that are also run on a machine whose commands can fail
FaultConfigs ==
    { Base,
      [Base EXCEPT !.use_uefi = "False", !.bootloader = L("grub"), !.desktop_profile = L("gnome")],
      [Base EXCEPT !.disk_mode = L("manual"), !.root_partition = Sda2, !.boot_partition = Sda1,
                   !.format_partitions = << <<Sda2, L("ext4")>> >>, !.swap_partition = Sda3,
                   !.network_mode = L("nm_default")],
      [Base EXCEPT !.stage3_source = UrlTar, !.kernel = L("genkernel")] }

FaultScenarios == {Scenario(c, Env0, [Host0 EXCEPT !.flaky = TRUE], Fs0) : c \in FaultConfigs}

Scenarios ==
    {Scenario(c, Env0, Host0, Fs0) : c \in Configs}
    \cup {Scenario(c, [Env0 EXCEPT !.GENTOO_STAGE3_TARBALL = LocalTar], Host0, f) :
            c \in SourceConfigs, f \in {Fs0, {HostResolv}}}
    \cup {Scenario(c, Env0, h, f) :
            c \in SourceConfigs,
            h \in {[Host0 EXCEPT !.findmnt = <<>>, !.blkid = <<>>, !.mirrorselect = <<>>,
                                 !.cpuid = <<>>, !.cpu_count = 0]},
            f \in {{LocalTar}, Fs0 \cup {TmpTar}}}
    \cup FaultScenarios

\* the scenarios that are also started through main() and its TUI
MainScenarios ==
    {Scenario(c, Env0, Host0, Fs0) : c \in AutoConfigs \cup AccountConfigs \cup {DefaultConfig}}

Answers == [junk : 0..MaxJunk, yes : BOOLEAN]
NoAnswer == [junk |-> 0, yes |-> FALSE]
NoRun == [log |-> <<>>, dry_run |-> TRUE, cfg |-> DefaultConfig, pc |-> "none", nfail |-> 0]
NoCall == [f |-> "none", args |-> <<>>, ret |-> <<>>, done |-> FALSE]

----------------------------------------------------------------------------
(* Init *)

Init ==
    \E sc \in Scenarios :
        /\ cfg = sc.cfg
        /\ environ = sc.environ
        /\ host = sc.host
        /\ fs = sc.fs
        /\ dry_run \in BOOLEAN
        /\ entry \in (IF sc \in MainScenarios THEN {"main", "direct"} ELSE {"direct"})
        /\ pc = IF entry = "main" THEN "tui" ELSE "stage1"
        /\ exit_code = -1
        /\ log = <<>>
        /\ answers = NoAnswer
        /\ nfail = 0
        /\ message = <<>>
        /\ run = 1
        /\ prev = NoRun
        /\ call = NoCall

----------------------------------------------------------------------------
(* main: the TUI's Install and Abort steps, and the line-prompt fallback *)

\* tui_main, step "Install" on a complete config, confirmed
TuiInstall ==
    /\ pc = "tui"
    /\ is_complete(cfg)
    /\ pc' = "stage1"
    /\ entry' = "tui"
    /\ message' = <<>>
    /\ UNCHANGED <<cfg, dry_run, exit_code, log, fs, environ, host, answers, nfail, run, prev, call>>

\* tui_main, step "Install" refused on an incomplete config, or not confirmed
TuiInstallRefused ==
    /\ pc = "tui"
    /\ message' = IF ~is_complete(cfg) THEN L("Config incomplete") ELSE L("Installation cancelled.")
    /\ message' # message
    /\ UNCHANGED <<cfg, dry_run, pc, exit_code, log, fs, environ, host, answers, nfail, entry,
                   run, prev, call>>

\* an abort from the TUI after which main returns 0
TuiAbort_status0 ==
    /\ pc = "tui"
    /\ pc' = "exited"
    /\ exit_code' = 0
    /\ log' = Append(log, EvPrint(L("Installation aborted from TUI.")))
    /\ UNCHANGED <<cfg, dry_run, fs, environ, host, answers, nfail, entry, message, run, prev, call>>

\* tui_main, "Abort" or q, confirmed: main returns 1
TuiAbort ==
    /\ pc = "tui"
    /\ pc' = "exited"
    /\ exit_code' = 1
    /\ log' = Append(log, EvPrint(L("Installation aborted from TUI.")))
    /\ UNCHANGED <<cfg, dry_run, fs, environ, host, answers, nfail, entry, message, run, prev, call>>

\* run_tui raises: main falls back to collect_config() and installs its result
TuiFails ==
    /\ pc = "tui"
    /\ entry' = "fallback"
    /\ \E disk \in {<<>>, Sda, Nvme}, root_fs \in {L("ext4")}, uefi \in BOOLEAN,
          profile \in {L("none"), L("gnome")}, proceed \in BOOLEAN :
          IF disk = <<>>
          THEN /\ pc' = "exited" /\ exit_code' = 1 /\ cfg' = cfg
               /\ log' = Append(log, EvPrint(L("No disk entered, aborting.")))
          ELSE IF ~proceed
          THEN /\ pc' = "exited" /\ exit_code' = 1 /\ cfg' = cfg
               /\ log' = Append(log, EvPrint(L("Aborted by user.")))
          ELSE /\ pc' = "stage1" /\ exit_code' = exit_code /\ log' = log
               /\ cfg' = [DefaultConfig EXCEPT !.target_disk = disk, !.root_fs = root_fs,
                                               !.use_uefi = IF uefi THEN "True" ELSE "False",
                                               !.hostname = L("gentoo"), !.username = L("user"),
                                               !.desktop_profile = profile]
    /\ UNCHANGED <<dry_run, fs, environ, host, answers, nfail, message, run, prev, call>>

----------------------------------------------------------------------------
(* run_install: the six stages *)

RECURSIVE SubsetsUpTo(_, _)
\* the subsets of S with at most k elements
SubsetsUpTo(S, k) ==
    IF k <= 0 THEN {{}}
    ELSE LET R == SubsetsUpTo(S, k - 1) IN R \cup {T \cup {x} : T \in R, x \in S}

\* external commands that may still exit non-zero in this run: the repeated
\* run is the one in which every command succeeds
Budget == IF run = 1 /\ host.flaky THEN MaxFail - nfail ELSE 0

\* a stage whose events are recorded ahead of those of the stages before it
RunStage_reordered(steps, next) ==
    \E F \in SubsetsUpTo(Spawning(steps), Budget) :
        LET st == Exec(steps, 1, F, St0(fs)) IN
        /\ st.failed = Cardinality(F)
        /\ log' = st.log \o log
        /\ fs' = st.fs
        /\ nfail' = nfail + st.failed
        /\ pc' = IF st.status = "ok" THEN next
                 ELSE IF st.status = "exit" THEN "exited" ELSE "crashed"
        /\ exit_code' = IF st.status = "ok" THEN (IF next = "finished" THEN 0 ELSE exit_code) ELSE 1

\* a stage that is started again when one of its commands raised
RunStage_retrying(steps, next) ==
    \E ss \in {steps} : \E F \in SubsetsUpTo(Spawning(ss), Budget) :
        \E st \in {Exec(ss, 1, F, St0(fs))} :
        /\ st.failed = Cardinality(F)
        /\ log' = IF st.status \in {"ok", "exit"} THEN log \o st.log ELSE log
        /\ fs' = st.fs
        /\ nfail' = nfail + st.failed
        /\ pc' = IF st.status = "ok" THEN next
                 ELSE IF st.status = "exit" THEN "exited" ELSE pc
        /\ exit_code' = IF st.status = "ok" THEN (IF next = "finished" THEN 0 ELSE exit_code)
                        ELSE IF st.status = "exit" THEN 1 ELSE exit_code

\* one stage of run_install: runs its steps, goes on to the next stage, or
\* ends the process on sys.exit(1) or an uncaught exception
RunStage(steps, next) ==
    \E ss \in {steps} : \E F \in SubsetsUpTo(Spawning(ss), Budget) :
        \E st \in {Exec(ss, 1, F, St0(fs))} :
        /\ st.failed = Cardinality(F)
        /\ log' = log \o st.log
        /\ fs' = st.fs
        /\ nfail' = nfail + st.failed
        /\ pc' = IF st.status = "ok" THEN next
                 ELSE IF st.status = "exit" THEN "exited" ELSE "crashed"
        /\ exit_code' = IF st.status = "ok" THEN (IF next = "finished" THEN 0 ELSE exit_code) ELSE 1

MountTarget ==
    /\ pc = "stage1"
    /\ \E a \in Answers :
        /\ IF AsksConfirm(cfg) THEN run = 1 \/ a = answers ELSE a = answers
        /\ answers' = a
        /\ RunStage(prepare_disks(cfg, dry_run, a), "stage2")
    /\ UNCHANGED <<cfg, dry_run, environ, host, entry, message, run, prev, call>>

InstallStage3 ==
    /\ pc = "stage2"
    /\ RunStage(install_stage3(cfg, dry_run, environ, host), "stage3")
    /\ UNCHANGED <<cfg, dry_run, environ, host, answers, entry, message, run, prev, call>>

ConfigureBaseSystem ==
    /\ pc = "stage3"
    /\ RunStage(configure_base_system(cfg, dry_run, environ, host, fs), "stage4")
    /\ UNCHANGED <<cfg, dry_run, environ, host, answers, entry, message, run, prev, call>>

InstallBootloader ==
    /\ pc = "stage4"
    /\ RunStage(install_bootloader(cfg, dry_run), "stage5")
    /\ UNCHANGED <<cfg, dry_run, environ, host, answers, entry, message, run, prev, call>>

InstallDesktopEnvironment ==
    /\ pc = "stage5"
    /\ RunStage(install_desktop_environment(cfg, dry_run), "stage6")
    /\ UNCHANGED <<cfg, dry_run, environ, host, answers, entry, message, run, prev, call>>

\* finalize_install, then run_install's "Pipeline finished"; main returns 0
FinalizeInstall ==
    /\ pc = "stage6"
    /\ RunStage(finalize_install(cfg, dry_run) \o <<Say(L("=== Pipeline finished ==="))>>
                \o (IF dry_run
                    THEN <<Say(L("Note: this was a dry-run. No real changes were made."))>>
                    ELSE <<>>),
                "finished")
    /\ UNCHANGED <<cfg, dry_run, environ, host, answers, entry, message, run, prev, call>>

----------------------------------------------------------------------------
(* Running the installer a second time on the same machine *)

OtherPasswords(c) == [c EXCEPT !.root_password = L("hunter2"), !.user_password = L("letmein")]

\* the installer is started again with the same config (or one that differs
\* in the passwords only), the same replies and the same mode (or for real
\* after a dry-run), on the machine as the first run left it
RunAgain ==
    /\ run = 1
    /\ pc \in {"finished", "exited", "crashed"}
    /\ entry = "direct"
    /\ nfail = 0
    /\ run' = 2
    /\ prev' = [log |-> log, dry_run |-> dry_run, cfg |-> cfg, pc |-> pc, nfail |-> nfail]
    /\ log' = <<>>
    /\ pc' = "stage1"
    /\ exit_code' = -1
    /\ \/ dry_run' = dry_run /\ cfg' = cfg
       \/ dry_run /\ dry_run' = FALSE /\ cfg' = cfg
       \/ /\ Truthy(cfg.root_password) /\ Truthy(cfg.user_password)
          /\ dry_run' = dry_run /\ cfg' = OtherPasswords(cfg)
    /\ UNCHANGED <<fs, environ, host, answers, nfail, entry, message, call>>

Next ==
    \/ TuiInstall
    \/ TuiInstallRefused
    \/ TuiAbort
    \/ TuiFails
    \/ MountTarget
    \/ InstallStage3
    \/ ConfigureBaseSystem
    \/ InstallBootloader
    \/ InstallDesktopEnvironment
    \/ FinalizeInstall
    \/ RunAgain

Spec == Init /\ [][Next]_vars

\* every call of run_install returns or raises: a stage that can run does run
SpecLive ==
    /\ Init /\ [][Next]_vars
    /\ WF_vars(MountTarget) /\ WF_vars(InstallStage3) /\ WF_vars(ConfigureBaseSystem)
    /\ WF_vars(InstallBootloader) /\ WF_vars(InstallDesktopEnvironment)
    /\ WF_vars(FinalizeInstall)

----------------------------------------------------------------------------
(* Functions called on their own: is_complete() and part_name()           *)

MaxPart == 3    \* partition numbers 1..MaxPart

Mmc == <<"/", "dev", "/", "mmcblk", "0">>
Vda == <<"/", "dev", "/", "vd", "a">>
MapperNvme == <<"/", "dev", "/", "mapper", "/", "nvme", "0">>
BareNvme == <<"nvme", "0n1">>
PartDisks == {Sda, Nvme, Mmc, Vda, MapperNvme, BareNvme}

\* configs in which every field is_complete() reads is set or unset
CompletenessInputs ==
    {[DefaultConfig EXCEPT !.language = la, !.root_fs = rf, !.use_uefi = u,
                           !.desktop_profile = dp, !.hostname = hn, !.username = un,
                           !.root_password = rp, !.user_password = up, !.bootloader = bl,
                           !.kernel = k, !.network_mode = nm, !.disk_mode = dm,
                           !.target_disk = td, !.root_partition = rt] :
        la \in {<<>>, L("en_US")}, rf \in {<<>>, L("ext4")}, u \in Tri,
        dp \in {None, L("none")}, hn \in {None, L("gentoo")}, un \in {None, L("user")},
        rp \in {None, L("secret1")}, up \in {<<>>, L("secret2")},
        bl \in {<<>>, L("grub")}, k \in {<<>>, L("dist-kernel")}, nm \in {<<>>, L("copy_iso")},
        dm \in {L("auto"), L("manual")}, td \in {None, Sda}, rt \in {None, <<>>, Sda2}}

MaxRows == 2    \* rows of findmnt output

Sdb1 == <<"/", "dev", "/", "sd", "b", "1">>
\* rows findmnt can print, split on whitespace: a row without UUID has three parts
FstabRowPool ==
    { <<Sda2, GENTOO_ROOT, L("ext4"), L("ABCD")>>,
      <<Sda1, BootDir, L("vfat"), L("EF01")>>,
      <<Sdb1, <<"/", "home">>, L("ext4"), L("7777")>>,
      <<Sdb1, GENTOO_ROOT \o <<"2">>, L("ext4"), L("1234")>>,
      <<L("tmpfs"), GENTOO_ROOT \o <<"/", "tmp">>, L("tmpfs")>> }
FstabInputs ==
    [rows : UNION {[1..n -> FstabRowPool] : n \in 0..MaxRows},
     swap_partition : {None, Sda3},
     blkid : {<<>>, L("9999")}]

\* JSON documents given to config_from_dict
DocKeys == {"hostname", "target_disk", "use_uefi", "root_password", "makeopts_jobs", "future_option"}
DocValue(k) ==
    CASE k = "hostname" -> L("box")
      [] k = "target_disk" -> Nvme
      [] k = "use_uefi" -> "False"
      [] k = "makeopts_jobs" -> 3
      [] OTHER -> L("value")
ConfigDocs == {[k \in S |-> DocValue(k)] : S \in SUBSET DocKeys}

\* JSON documents given to load_credentials_into_config
CredKeys == {"root_password", "user_password", "hostname", "note"}
CredDocs ==
    {[is_dict |-> TRUE, items |-> [k \in S |-> L("from-file")]] : S \in SUBSET CredKeys}
    \cup {[is_dict |-> FALSE, items |-> <<>>]}
CredConfigs ==
    {[Base EXCEPT !.root_password = rp, !.user_password = up] :
        rp \in {None, <<>>, L("secret1")}, up \in {None, <<>>, L("secret2")}}

Call(f, args) == [f |-> f, args |-> args, ret |-> <<>>, done |-> FALSE]

InitPure ==
    /\ cfg = DefaultConfig
    /\ environ = Env0
    /\ host = Host0
    /\ fs = {}
    /\ dry_run = TRUE
    /\ entry = "direct"
    /\ pc = "call"
    /\ exit_code = -1
    /\ log = <<>>
    /\ answers = NoAnswer
    /\ nfail = 0
    /\ message = <<>>
    /\ run = 1
    /\ prev = NoRun
    /\ \/ \E c \in CompletenessInputs : call = Call("is_complete", c)
       \/ \E d \in PartDisks, n \in 1..MaxPart : call = Call("part_name", <<d, NumStr(n)>>)
       \/ \E a \in FstabInputs : call = Call("generate_fstab", a)
       \/ \E c \in Configs : call = Call("config_to_dict", c)
       \/ \E d \in ConfigDocs : call = Call("config_from_dict", d)
       \/ \E c \in CredConfigs : call = Call("save_credentials_from_config", c)
       \/ \E c \in CredConfigs, d \in CredDocs :
             call = Call("load_credentials_into_config", [cfg |-> c, doc |-> d])

IsCompleteCall ==
    /\ call.f = "is_complete" /\ ~call.done
    /\ call' = [call EXCEPT !.ret = is_complete(call.args), !.done = TRUE]
    /\ UNCHANGED <<cfg, dry_run, pc, exit_code, log, fs, environ, host, answers, nfail, entry,
                   message, run, prev>>

PartNameCall ==
    /\ call.f = "part_name" /\ ~call.done
    /\ call' = [call EXCEPT !.ret = part_name(call.args[1], call.args[2]), !.done = TRUE]
    /\ UNCHANGED <<cfg, dry_run, pc, exit_code, log, fs, environ, host, answers, nfail, entry,
                   message, run, prev>>

\* generate_fstab on a machine whose findmnt and blkid print what args says;
\* ret is the list of fstab lines
GenerateFstabCall ==
    /\ call.f = "generate_fstab" /\ ~call.done
    /\ LET c == [DefaultConfig EXCEPT !.swap_partition = call.args.swap_partition]
           h == [Host0 EXCEPT !.findmnt = call.args.rows, !.blkid = call.args.blkid]
           st == Exec(generate_fstab(c, FALSE, GENTOO_ROOT, h), 1, {}, St0({}))
       IN  call' = [call EXCEPT !.ret = st.acc, !.done = TRUE]
    /\ UNCHANGED <<cfg, dry_run, pc, exit_code, log, fs, environ, host, answers, nfail, entry,
                   message, run, prev>>

\* config_to_dict, then config_from_dict of the result, then config_to_dict again
ConfigToDictCall ==
    /\ call.f = "config_to_dict" /\ ~call.done
    /\ LET d == config_to_dict(call.args)
           decoded == config_from_dict(d)
       IN  call' = [call EXCEPT !.ret = [dict |-> d, decoded |-> decoded,
                                         again |-> config_to_dict(decoded)],
                                !.done = TRUE]
    /\ UNCHANGED <<cfg, dry_run, pc, exit_code, log, fs, environ, host, answers, nfail, entry,
                   message, run, prev>>

ConfigFromDictCall ==
    /\ call.f = "config_from_dict" /\ ~call.done
    /\ call' = [call EXCEPT !.ret = config_from_dict(call.args), !.done = TRUE]
    /\ UNCHANGED <<cfg, dry_run, pc, exit_code, log, fs, environ, host, answers, nfail, entry,
                   message, run, prev>>

SaveCredentialsCall ==
    /\ call.f = "save_credentials_from_config" /\ ~call.done
    /\ call' = [call EXCEPT !.ret = save_credentials_from_config(call.args), !.done = TRUE]
    /\ UNCHANGED <<cfg, dry_run, pc, exit_code, log, fs, environ, host, answers, nfail, entry,
                   message, run, prev>>

LoadCredentialsCall ==
    /\ call.f = "load_credentials_into_config" /\ ~call.done
    /\ call' = [call EXCEPT !.ret = load_credentials_into_config(call.args.cfg, call.args.doc),
                            !.done = TRUE]
    /\ UNCHANGED <<cfg, dry_run, pc, exit_code, log, fs, environ, host, answers, nfail, entry,
                   message, run, prev>>

NextPure ==
    \/ IsCompleteCall
    \/ PartNameCall
    \/ GenerateFstabCall
    \/ ConfigToDictCall
    \/ ConfigFromDictCall
    \/ SaveCredentialsCall
    \/ LoadCredentialsCall

SpecPure == InitPure /\ [][NextPure]_vars

----------------------------------------------------------------------------
(* The disk screen of the TUI: _tui_edit_disk and the partition menu,     *)
(* followed by the fstab a live run of the edited config writes           *)

\* the partitions lsblk lists for the one disk of the machine
LsblkDisk == Sda
LsblkParts == {Sda1, Sda2, Sda3}
\* the UUID blkid and findmnt print for a partition
UuidOf(dev) ==
    CASE dev = Sda1 -> L("EF01")
      [] dev = Sda2 -> L("ABCD")
      [] dev = Sda3 -> L("9999")
      [] OTHER -> <<>>

\* cfg.format_partitions[path] = fstype
DictSet(fp, path, fstype) ==
    IF \E i \in 1..Len(fp) : fp[i][1] = path
    THEN [i \in 1..Len(fp) |-> IF fp[i][1] = path THEN <<path, fstype>> ELSE fp[i]]
    ELSE Append(fp, <<path, fstype>>)
\* del cfg.format_partitions[path]
DictDel(fp, path) ==
    LET Other(e) == e[1] # path IN SelectSeq(fp, Other)

MenuOptions == {"Set as root", "Set as /boot", "Set as swap", "Mark for format as ext4",
                "Mark for format as vfat", "Clear format flag"}

\* one choice of _tui_partition_menu on the partition path
_tui_partition_menu(c, path, choice) ==
    CASE choice = "Set as root" -> [c EXCEPT !.root_partition = path]
      [] choice = "Set as /boot" -> [c EXCEPT !.boot_partition = path]
      [] choice = "Set as swap" -> [c EXCEPT !.swap_partition = path]
      [] choice = "Mark for format as ext4" ->
            [c EXCEPT !.format_partitions = DictSet(@, path, L("ext4"))]
      [] choice = "Mark for format as vfat" ->
            [c EXCEPT !.format_partitions = DictSet(@, path, L("vfat"))]
      [] OTHER -> [c EXCEPT !.format_partitions = DictDel(@, path)]

\* the "Use UEFI layout?" prompt at the end of _tui_edit_disk: ans is "True",
\* "False", or "None" for a reply that is neither yes nor no
AnswerUefi(c, ans) == IF ans = "None" THEN c ELSE [c EXCEPT !.use_uefi = ans]

\* the auto branch of _tui_edit_disk
EditDiskAuto(c) ==
    [c EXCEPT !.disk_mode = L("auto"), !.root_partition = None, !.boot_partition = None]

InitTui ==
    /\ cfg = DefaultConfig
    /\ environ = Env0
    /\ host = Host0
    /\ fs = {}
    /\ dry_run = FALSE
    /\ entry = "main"
    /\ pc = "tui"
    /\ exit_code = -1
    /\ log = <<>>
    /\ answers = NoAnswer
    /\ nfail = 0
    /\ message = <<>>
    /\ run = 1
    /\ prev = NoRun
    /\ call = NoCall

\* _tui_edit_disk up to its end (auto mode, or manual mode without a disk to
\* pick partitions on) or up to the partition list of manual mode
TuiEditDisk ==
    /\ pc = "tui"
    /\ \E picked \in {None, LsblkDisk}, manual \in BOOLEAN, ans \in Tri :
          LET c1 == IF picked # None THEN [cfg EXCEPT !.target_disk = picked] ELSE cfg
          IN  IF manual
              THEN IF c1.target_disk = LsblkDisk
                   THEN /\ cfg' = [c1 EXCEPT !.disk_mode = L("manual")]
                        /\ pc' = "partitions"
                   ELSE /\ cfg' = AnswerUefi([c1 EXCEPT !.disk_mode = L("manual")], ans)
                        /\ pc' = "tui"
              ELSE /\ cfg' = AnswerUefi(EditDiskAuto(c1), ans)
                   /\ pc' = "tui"
    /\ UNCHANGED <<dry_run, exit_code, log, fs, environ, host, answers, nfail, entry, message,
                   run, prev, call>>

\* _tui_pick_manual_partitions: Enter on a partition and one choice of its menu
TuiPartitionMenu ==
    /\ pc = "partitions"
    /\ \E path \in LsblkParts, choice \in MenuOptions :
          cfg' = _tui_partition_menu(cfg, path, choice)
    /\ UNCHANGED <<dry_run, pc, exit_code, log, fs, environ, host, answers, nfail, entry,
                   message, run, prev, call>>

\* q in the partition list, then the UEFI prompt: _tui_edit_disk returns
TuiPartitionsDone ==
    /\ pc = "partitions"
    /\ \E ans \in Tri : cfg' = AnswerUefi(cfg, ans)
    /\ pc' = "tui"
    /\ UNCHANGED <<dry_run, exit_code, log, fs, environ, host, answers, nfail, entry, message,
                   run, prev, call>>

\* the rows findmnt prints once prepare_disks has mounted what c selects
MountedRows(c) ==
    IF c.disk_mode = L("manual")
    THEN << <<c.root_partition, GENTOO_ROOT, L("ext4"), UuidOf(c.root_partition)>> >>
         \o (IF Truthy(c.boot_partition)
             THEN << <<c.boot_partition, BootDir, L("vfat"), UuidOf(c.boot_partition)>> >>
             ELSE <<>>)
    ELSE IF UefiOn(c)
    THEN << <<part_name(c.target_disk, "2"), GENTOO_ROOT, L("ext4"), UuidOf(part_name(c.target_disk, "2"))>>,
            <<part_name(c.target_disk, "1"), BootDir, L("vfat"), UuidOf(part_name(c.target_disk, "1"))>> >>
    ELSE << <<part_name(c.target_disk, "1"), GENTOO_ROOT, L("ext4"), UuidOf(part_name(c.target_disk, "1"))>> >>

\* "Install" with the edited config, live: call.ret is the list of lines
\* generate_fstab writes after prepare_disks has mounted the partitions
TuiInstallFstab ==
    /\ pc = "tui"
    /\ IF cfg.disk_mode = L("manual") THEN Truthy(cfg.root_partition) ELSE Truthy(cfg.target_disk)
    /\ LET h == [host EXCEPT !.findmnt = MountedRows(cfg), !.blkid = UuidOf(cfg.swap_partition)]
       IN  call' = [f |-> "generate_fstab", args |-> cfg,
                    ret |-> Exec(generate_fstab(cfg, FALSE, GENTOO_ROOT, h), 1, {}, St0({})).acc,
                    done |-> TRUE]
    /\ pc' = "installed"
    /\ UNCHANGED <<cfg, dry_run, exit_code, log, fs, environ, host, answers, nfail, entry,
                   message, run, prev>>

NextTui ==
    \/ TuiEditDisk
    \/ TuiPartitionMenu
    \/ TuiPartitionsDone
    \/ TuiInstallFstab

SpecTui == InitTui /\ [][NextTui]_vars

----------------------------------------------------------------------------
(* Reading the log *)

Stages == {"stage1", "stage2", "stage3", "stage4", "stage5", "stage6"}
Ended == {"finished", "exited", "crashed"}

\* event e is a command handed to the executor whose program is prog
IsCmd(e, prog) == e.k = "log" /\ e.argv[1] = L(prog)
IsParted(e) == IsCmd(e, "parted")
IsMkfs(e) == IsCmd(e, "mkfs.ext4") \/ IsCmd(e, "mkfs.vfat")
IsChrooted(e) == IsCmd(e, "chroot")
IsExtract(e) == IsCmd(e, "tar")
IsRootMount(e) == IsCmd(e, "mount") /\ Len(e.argv) = 3 /\ e.argv[3] = GENTOO_ROOT
IsBindMount(e) == IsCmd(e, "mount") /\ e.argv[2] \in {L("--types"), L("--rbind"), L("--make-rslave")}
Answered(e, reply) == e.k = "ask" /\ e.in = L(reply)

----------------------------------------------------------------------------
(* Claims *)

\* C1: every parted and every mkfs command of a run is issued after the
\* operator answered yes to a confirmation of that run, and a run in which
\* the operator declined issues no parted and no mkfs command at all.
C1_DestructiveOnlyAfterYes ==
    /\ \A i \in 1..Len(log) :
          IsParted(log[i]) \/ IsMkfs(log[i]) => \E j \in 1..(i - 1) : Answered(log[j], "y")
    /\ (\E j \in 1..Len(log) : Answered(log[j], "n"))
          => \A i \in 1..Len(log) : ~IsParted(log[i]) /\ ~IsMkfs(log[i])

\* a manual-mode run that formatted a partition after the operator's yes
C1_Witness ==
    /\ cfg.disk_mode = L("manual")
    /\ pc = "stage2"
    /\ \E i, j \in 1..Len(log) : j < i /\ Answered(log[j], "y") /\ IsMkfs(log[i])

\* C2: in a run without --execute no command handed to run_cmd, run_in_chroot
\* or _set_password is started as a process; each is only logged as (dry-run).
C2_DryRunSpawnsNoCommand ==
    dry_run =>
        \A i \in 1..Len(log) :
            /\ log[i].k = "spawn" => log[i].s = L("run_cmd_capture")
            /\ log[i].k = "log" => log[i].dry

\* a dry run that went through all stages, chpasswd and chrooted commands included
C2_Witness ==
    /\ dry_run
    /\ pc = "finished"
    /\ \E i, j \in 1..Len(log) :
          /\ log[i].k = "log" /\ log[i].s = L("chpasswd (stdin redacted)")
          /\ IsParted(log[j])

\* C3: whenever main has begun the installation, the config satisfies is_complete().
C3_InstallOnlyWhenComplete ==
    entry \in {"tui", "fallback"} /\ pc \in Stages => is_complete(cfg)

\* C4: the archive extraction, the chroot bind mounts and every chrooted
\* command are issued only after a mount of the root partition at /mnt/gentoo.
C4_MountBeforeDependents ==
    \A i \in 1..Len(log) :
        IsExtract(log[i]) \/ IsBindMount(log[i]) \/ IsChrooted(log[i])
            => \E j \in 1..(i - 1) : IsRootMount(log[j])

\* C5: a dry run creates no directory, writes no file and starts no process.
C5_DryRunNoSideEffects ==
    dry_run => \A i \in 1..Len(log) : log[i].k \notin {"mkdir", "write", "spawn"}

IsLog(e) == e.k = "log"
\* the commands a run handed to the executor, in order, with their audit lines
RecordedCmds(lg) == SelectSeq(lg, IsLog)
\* their argument vectors alone
Argvs(lg) == [i \in 1..Len(RecordedCmds(lg)) |-> RecordedCmds(lg)[i].argv]
\* a log without what was sent on standard input
Redacted(lg) == [i \in 1..Len(lg) |-> IF lg[i].k = "spawn" THEN [lg[i] EXCEPT !.in = <<>>] ELSE lg[i]]
Secrets(c) == {c.root_password, c.user_password} \ {None, <<>>}

\* C6: a dry run records the command sequence, and ends the way, of the live
\* run on the same config, replies and machine in which every command succeeds.
C6_DryRunPreviewsLiveRun ==
    run = 2 /\ prev.dry_run /\ ~dry_run /\ prev.cfg = cfg /\ pc \in Ended
        => Argvs(prev.log) = Argvs(log) /\ prev.pc = pc

\* C7: a second dry run on the same config, replies and machine records the
\* same ordered list of commands as the first.
C7_DryRunRepeatable ==
    run = 2 /\ prev.dry_run /\ dry_run /\ prev.cfg = cfg /\ pc \in Ended
        => RecordedCmds(prev.log) = RecordedCmds(log) /\ prev.pc = pc

\* two finished dry runs of a URL-less config, with commands recorded
C7_Witness ==
    /\ run = 2 /\ prev.dry_run /\ dry_run /\ prev.cfg = cfg
    /\ pc = "finished"
    /\ \E i \in 1..Len(log) : IsExtract(log[i])
    /\ GENTOO_ROOT \in fs

\* C8: no password occurs in an argument vector or in a logged or printed
\* line; a password is sent only on chpasswd's standard input; and two runs
\* in the same mode whose configs differ in the passwords only produce the
\* same events apart from that standard input.
C8_PasswordsNeverRecorded ==
    /\ \A i \in 1..Len(log) : \A p \in Secrets(cfg) :
          /\ ~Occurs(p, log[i].s)
          /\ \A a \in 1..Len(log[i].argv) : ~Occurs(p, log[i].argv[a])
          /\ Occurs(p, log[i].in) => log[i].k = "spawn" /\ log[i].argv[3] = L("chpasswd")
    /\ (run = 2 /\ prev.dry_run = dry_run /\ pc \in Ended
           /\ cfg # prev.cfg /\ cfg = OtherPasswords(prev.cfg))
          => Redacted(log) = Redacted(prev.log)

\* a live run that set both passwords, repeated with other passwords
C8_Witness ==
    /\ run = 2 /\ ~dry_run /\ ~prev.dry_run /\ cfg # prev.cfg
    /\ pc = "finished"
    /\ \E i, j \in 1..Len(log) :
          /\ log[i].k = "spawn" /\ Occurs(cfg.root_password, log[i].in)
          /\ log[j].k = "spawn" /\ Occurs(cfg.user_password, log[j].in)

\* C9: manual mode without a root partition ends the process with status 1,
\* having asked nothing and issued no command, and no later stage runs.
C9_ManualWithoutRootIsFatal ==
    cfg.disk_mode = L("manual") /\ ~Truthy(cfg.root_partition) /\ pc # "stage1" /\ pc # "tui"
        => /\ pc = "exited"
           /\ exit_code = 1
           /\ \A i \in 1..Len(log) : log[i].k = "print"

\* a manual-mode run without root partition that printed the error and exited
C9_Witness ==
    /\ cfg.disk_mode = L("manual") /\ ~Truthy(cfg.root_partition)
    /\ pc = "exited"
    /\ log = <<EvPrint(L("[ERROR] Manual disk mode selected but no root_partition set."))>>

\* C10: auto mode without a target disk ends the process with a non-zero
\* status, whatever the operator replies, with no command issued and no later stage run.
C10_AutoWithoutDiskIsFatal ==
    cfg.disk_mode # L("manual") /\ ~Truthy(cfg.target_disk) /\ pc # "stage1" /\ pc # "tui"
        => /\ pc \in {"exited", "crashed"}
           /\ exit_code # 0
           /\ \A i \in 1..Len(log) : log[i].k # "log"

----------------------------------------------------------------------------
(* Failures of external commands *)

\* event e says that the process of program prog, run on the host, exited non-zero
IsFail(e, prog) == e.k = "fail" /\ e.argv[1] = L(prog)
\* the same for a program run inside the chroot
IsChrootFail(e, prog) == e.k = "fail" /\ e.argv[1] = L("chroot") /\ e.argv[3] = L(prog)
LastArg(e) == e.argv[Len(e.argv)]

\* a failed command of disk preparation, the stage3 download or the extraction
PreconditionFail(e) ==
    \/ \E prog \in {"parted", "mkfs.ext4", "mkfs.vfat", "mkdir", "wget", "tar"} : IsFail(e, prog)
    \/ IsFail(e, "mount") /\ LastArg(e) \in {GENTOO_ROOT, BootDir}

\* C11: in live mode a non-zero exit of a disk-preparation command, of the
\* stage3 download or of the extraction is the last thing the run does: no
\* further command, no later stage, and the process ends with a non-zero status.
C11_PreconditionFailureAborts ==
    \A i \in 1..Len(log) :
        PreconditionFail(log[i])
            => ~dry_run /\ i = Len(log) /\ pc = "crashed" /\ exit_code # 0

\* a live run whose tar extraction exited non-zero
C11_Witness ==
    /\ ~dry_run /\ pc = "crashed" /\ Len(log) > 0
    /\ IsFail(log[Len(log)], "tar")
    /\ \E i \in 1..Len(log) : IsRootMount(log[i])

DesktopPackages == {L("gnome-base/gnome"), L("kde-plasma/plasma-meta"), L("xfce-base/xfce4-meta")}
DesktopServices == {L("gdm"), L("sddm"), L("lightdm")}

\* a failed locale generation, bootloader command or desktop-profile command
LocaleBootDesktopFail(e) ==
    \/ \E prog \in {"locale-gen", "bootctl", "grub-install", "grub-mkconfig"} : IsChrootFail(e, prog)
    \/ IsChrootFail(e, "emerge") /\ LastArg(e) \in DesktopPackages \cup {L("sys-boot/grub")}
    \/ IsChrootFail(e, "systemctl") /\ LastArg(e) \in DesktopServices

\* C12: a non-zero exit of locale-gen, of a bootloader command or of a
\* desktop-profile command is followed by a warning and does not end the run.
C12_LocaleBootDesktopFailuresCaught ==
    \A i \in 1..Len(log) :
        LocaleBootDesktopFail(log[i])
            => i < Len(log) /\ log[i + 1].k = "print" /\ pc # "crashed"

\* a failed mirror selection, repository sync, CPU-flag detection or timezone configuration
BestEffortFail(e) ==
    \/ IsFail(e, "mirrorselect")
    \/ IsChrootFail(e, "cpuid2cpuflags")
    \/ IsChrootFail(e, "emerge") /\ e.argv[4] \in {L("--sync"), L("--config")}
    \/ IsChrootFail(e, "emerge") /\ LastArg(e) = L("app-portage/cpuid2cpuflags")

BestEffortWarnings ==
    { L("[WARN] Failed to run timezone-data config"), L("[WARN] mirrorselect not available or failed"),
      L("[WARN] Failed to sync Portage tree"),
      L("[WARN] Failed to configure CPU_FLAGS_X86 via cpuid2cpuflags") }

\* C13: a non-zero exit of mirrorselect, emerge --sync, the cpuid2cpuflags
\* steps or the timezone-data configuration is followed by its warning,
\* configure_base_system goes on to the kernel installation, and when nothing
\* else fails the pipeline goes on with stages 4 to 6.
C13_BestEffortFailuresCaught ==
    \A i \in 1..Len(log) :
        BestEffortFail(log[i])
            => /\ i < Len(log)
               /\ log[i + 1].k = "print" /\ log[i + 1].s \in BestEffortWarnings
               /\ \E j \in (i + 1)..Len(log) :
                     IsChrooted(log[j]) /\ LastArg(log[j]) = L("sys-kernel/linux-firmware")
               /\ nfail = 1 => pc \in {"stage4", "stage5", "stage6", "finished"}

\* a live run that finished although the repository sync had failed
C13_Witness ==
    /\ ~dry_run /\ pc = "finished" /\ exit_code = 0
    /\ \E i \in 1..Len(log) : IsChrootFail(log[i], "emerge") /\ log[i].argv[4] = L("--sync")

----------------------------------------------------------------------------
(* The order of the stages *)

\* the stage of run_install that issues command e
StageOf(e) ==
    LET a == e.argv
        last == a[Len(a)]
    IN  IF a[1] # L("chroot")
        THEN IF a[1] \in {L("wget"), L("tar")} THEN 2
             ELSE IF a[1] = L("mount") /\ last \notin {GENTOO_ROOT, BootDir} THEN 3
             ELSE 1
        ELSE IF a[3] \in {L("locale-gen"), L("genkernel")} THEN 3
        ELSE IF a[3] \in {L("bootctl"), L("grub-install"), L("grub-mkconfig")} THEN 4
        ELSE IF a[3] \in {L("chpasswd"), L("useradd")} THEN 6
        ELSE IF a[3] = L("systemctl") THEN (IF last \in DesktopServices THEN 5 ELSE 6)
        ELSE IF last = L("sys-boot/grub") THEN 4
        ELSE IF last \in DesktopPackages THEN 5
        ELSE IF last \in {L("sudo"), L("net-misc/networkmanager"), L("net-wireless/iwd")} THEN 6
        ELSE 3

\* the number of the stage the process is about to run (7 once it has ended)
PcNum ==
    CASE pc \in {"tui", "stage1"} -> 1
      [] pc = "stage2" -> 2
      [] pc = "stage3" -> 3
      [] pc = "stage4" -> 4
      [] pc = "stage5" -> 5
      [] pc = "stage6" -> 6
      [] OTHER -> 7

Times(P(_)) == Cardinality({i \in 1..Len(log) : P(log[i])})
StageName(n) == <<"stage1", "stage2", "stage3", "stage4", "stage5", "stage6", "finished">>[n]
IsStage2Start(e) == e = EvMkdir(GENTOO_ROOT)
IsStage3Start(e) == IsCmd(e, "mount") /\ e.argv[2] = L("--types")
IsStage6Command(e) == IsChrooted(e) /\ LastArg(e) = L("systemd-timesyncd")
IsFinishedLine(e) == e = EvPrint(L("=== Pipeline finished ==="))

\* C14: the commands of the log are in the order of the six stages, a stage
\* has issued nothing before the one before it returned, no stage runs
\* twice, and a finished run has run each stage once.
C14_StagesOnceInOrder ==
    LET cmds == RecordedCmds(log) IN
    /\ \A i \in 1..(Len(cmds) - 1) : StageOf(cmds[i]) <= StageOf(cmds[i + 1])
    /\ \A i \in 1..Len(cmds) : StageOf(cmds[i]) < PcNum
    /\ Times(IsStage2Start) <= 1 /\ Times(IsStage3Start) <= 1
    /\ Times(IsStage6Command) <= 1 /\ Times(IsFinishedLine) <= 1
    /\ pc = "finished" =>
          /\ Times(IsStage2Start) = 1 /\ Times(IsStage3Start) = 1
          /\ Times(IsStage6Command) = 1 /\ Times(IsFinishedLine) = 1
          /\ log[Len(log) - (IF dry_run THEN 1 ELSE 0)] = EvPrint(L("=== Pipeline finished ==="))

\* a finished live run in which each of the six stages issued a command
C14_Witness ==
    /\ ~dry_run /\ pc = "finished"
    /\ \A n \in 1..6 : \E i \in 1..Len(log) : IsLog(log[i]) /\ StageOf(log[i]) = n

----------------------------------------------------------------------------
(* is_complete() and part_name() *)

RequiredScalars ==
    {"language", "root_fs", "desktop_profile", "hostname", "username", "root_password",
     "user_password", "bootloader", "kernel", "network_mode"}

\* C15: is_complete() is true iff the ten scalar fields are non-empty,
\* use_uefi is True or False, and the disk-identity field of the mode is
\* non-empty; the disk-identity field of the other mode has no influence.
C15_IsCompleteIffAllSet ==
    call.f = "is_complete" /\ call.done =>
        LET c == call.args
            manual == c.disk_mode = L("manual")
        IN  /\ call.ret = TRUE <=>
                  /\ \A fld \in RequiredScalars : c[fld] # None /\ c[fld] # <<>>
                  /\ c.use_uefi \in {"True", "False"}
                  /\ manual => c.root_partition \notin {None, <<>>}
                  /\ ~manual => c.target_disk \notin {None, <<>>}
            /\ manual => \A d \in {None, <<>>, Sda, Nvme} :
                            is_complete([c EXCEPT !.target_disk = d]) = call.ret
            /\ ~manual => \A r \in {None, <<>>, Sda1, Sda2} :
                            is_complete([c EXCEPT !.root_partition = r]) = call.ret

\* a manual-mode config found complete although it has no target disk
C15_Witness ==
    /\ call.f = "is_complete" /\ call.done /\ call.ret = TRUE
    /\ call.args.disk_mode = L("manual") /\ call.args.target_disk = None

\* C17: part_name(disk, n) is disk, "p", n for a path that starts with
\* /dev/nvme or /dev/mmcblk, and disk, n for every other path.
C17_PartNameByFamily ==
    call.f = "part_name" /\ call.done =>
        LET disk == call.args[1]
            n == call.args[2]
            family == /\ Len(disk) >= 4
                      /\ SubSeq(disk, 1, 3) = <<"/", "dev", "/">>
                      /\ disk[4] \in {"nvme", "mmcblk"}
        IN  /\ call.ret = IF family THEN disk \o <<"p", n>> ELSE disk \o <<n>>
            /\ disk = <<"/", "dev", "/", "sd", "a">> /\ n = "2"
                  => call.ret = <<"/", "dev", "/", "sd", "a", "2">>
            /\ disk = <<"/", "dev", "/", "nvme", "0n1">> /\ n = "1"
                  => call.ret = <<"/", "dev", "/", "nvme", "0n1", "p", "1">>
            /\ disk = <<"/", "dev", "/", "mmcblk", "0">> /\ n = "1"
                  => call.ret = <<"/", "dev", "/", "mmcblk", "0", "p", "1">>

\* part_name("/dev/mmcblk0", 1) has returned "/dev/mmcblk0p1"
C17_Witness ==
    /\ call.f = "part_name" /\ call.done
    /\ call.args = <<Mmc, "1">>
    /\ call.ret = <<"/", "dev", "/", "mmcblk", "0", "p", "1">>

----------------------------------------------------------------------------
(* Disk preparation *)

\* stage 1 has returned: the process is about to run stage 2 or has begun it
Stage1Returned == pc = "stage2" \/ \E i \in 1..Len(log) : log[i] = EvMkdir(GENTOO_ROOT)

IsDestructive(e) == e.k = "log" /\ e.argv[1] \notin {L("mkdir"), L("mount")}
\* the partitioning and formatting commands stage 1 issued, in order
Stage1Plan ==
    LET n == IF \E i \in 1..Len(log) : log[i] = EvMkdir(GENTOO_ROOT)
             THEN (CHOOSE i \in 1..Len(log) : log[i] = EvMkdir(GENTOO_ROOT)) - 1
             ELSE Len(log)
    IN  Argvs(SelectSeq(SubSeq(log, 1, n), IsDestructive))

\* C16: a confirmed auto-mode run partitions target_disk as GPT with a FAT32
\* partition 1 up to 513MiB flagged bootable and an ext4 partition 2 from
\* 513MiB to 100% when use_uefi is true, as msdos with one ext4 partition
\* when it is false; the root partition is formatted with mkfs.ext4 whatever
\* root_fs says, a root_fs other than ext4 only adding a warning.
C16_AutoPlan ==
    LET d == cfg.target_disk
        parted(rest) == <<L("parted"), d, L("--script")>> \o rest
        warned == \E i \in 1..Len(log) :
                     log[i] = EvPrint(L("[WARN] Only ext4 is implemented right now; using ext4 for root."))
    IN  ( /\ cfg.disk_mode = L("auto") /\ Truthy(d) /\ cfg.use_uefi \in {"True", "False"}
          /\ Stage1Returned
          /\ \E i \in 1..Len(log) : Answered(log[i], "y") )
        => /\ cfg.use_uefi = "True" =>
                 Stage1Plan = << parted(<<L("mklabel"), L("gpt")>>),
                                 parted(<<L("mkpart"), L("ESP"), L("fat32"), L("1MiB"), L("513MiB")>>),
                                 parted(<<L("set"), L("1"), L("boot"), L("on")>>),
                                 parted(<<L("mkpart"), L("primary"), L("ext4"), L("513MiB"), L("100%")>>),
                                 <<L("mkfs.vfat"), L("-F32"), part_name(d, "1")>>,
                                 <<L("mkfs.ext4"), part_name(d, "2")>> >>
           /\ cfg.use_uefi = "False" =>
                 Stage1Plan = << parted(<<L("mklabel"), L("msdos")>>),
                                 parted(<<L("mkpart"), L("primary"), L("ext4"), L("1MiB"), L("100%")>>),
                                 <<L("mkfs.ext4"), part_name(d, "1")>> >>
           /\ warned <=> cfg.root_fs # L("ext4")

\* a confirmed live UEFI run on an NVMe disk with root_fs = btrfs, stage 1 done
C16_Witness ==
    /\ ~dry_run /\ pc = "stage2"
    /\ cfg.disk_mode = L("auto") /\ cfg.target_disk = Nvme /\ cfg.use_uefi = "True"
    /\ cfg.root_fs = L("btrfs")
    /\ \E i \in 1..Len(log) : Answered(log[i], "y")
    /\ \E i \in 1..Len(log) : IsCmd(log[i], "mkfs.ext4") /\ LastArg(log[i]) = Nvme \o <<"p", "2">>

IsMountOf(e, dev, dir) == e.k = "log" /\ e.argv = <<L("mount"), dev, dir>>

\* C18: in manual mode with a root partition and partitions marked for
\* formatting, a declined confirmation issues no mkfs, the root partition is
\* still mounted at /mnt/gentoo, the boot partition at /mnt/gentoo/boot iff
\* one is set, and the process goes on to stage 2.
C18_DeclinedFormatStillMounts ==
    ( /\ cfg.disk_mode = L("manual") /\ Truthy(cfg.root_partition)
      /\ cfg.format_partitions # <<>>
      /\ \E i \in 1..Len(log) : Answered(log[i], "n") )
    => /\ \A i \in 1..Len(log) : ~IsMkfs(log[i])
       /\ nfail = 0 =>
             /\ Stage1Returned
             /\ \E i \in 1..Len(log) : IsMountOf(log[i], cfg.root_partition, GENTOO_ROOT)
             /\ Truthy(cfg.boot_partition)
                   <=> \E i \in 1..Len(log) : IsCmd(log[i], "mount") /\ LastArg(log[i]) = BootDir
             /\ Truthy(cfg.boot_partition)
                   => \E i \in 1..Len(log) : IsMountOf(log[i], cfg.boot_partition, BootDir)

\* a live manual run with a boot partition whose formatting was declined
C18_Witness ==
    /\ ~dry_run /\ pc = "stage2"
    /\ cfg.disk_mode = L("manual") /\ cfg.format_partitions # <<>>
    /\ cfg.boot_partition = Sda1
    /\ \E i \in 1..Len(log) : Answered(log[i], "n")
    /\ \E i \in 1..Len(log) : IsMountOf(log[i], Sda1, BootDir)

\* C19: a manual-mode run issues no parted command.
C19_ManualNeverPartitions ==
    cfg.disk_mode = L("manual") => \A i \in 1..Len(log) : ~IsParted(log[i])

\* a finished live manual-mode run that formatted and mounted
C19_Witness ==
    /\ cfg.disk_mode = L("manual") /\ ~dry_run /\ pc = "finished"
    /\ \E i \in 1..Len(log) : IsMkfs(log[i])
    /\ \E i \in 1..Len(log) : IsRootMount(log[i])

----------------------------------------------------------------------------
(* The stage3 archive *)

\* the source install_stage3 resolves: the config's, else the environment's
Stage3Source == IF Truthy(cfg.stage3_source) THEN cfg.stage3_source ELSE environ.GENTOO_STAGE3_TARBALL
Stage2Began == \E i \in 1..Len(log) : log[i] = EvMkdir(GENTOO_ROOT)
IsNotFoundLine(e, path) == e = EvPrint(<<"[ERROR] Stage3 tarball not found: ">> \o path)
IsFstabEvent(e) ==
    \/ e.k = "spawn" /\ e.argv[1] \in {L("findmnt"), L("blkid")}
    \/ e.k \in {"mkdir", "write"} /\ StartsWith(e.s, EtcDir)

TmpBasename(source) == <<"/", "tmp", "/">> \o Basename(source)
TmpBasenameOrDefault(source) ==
    IF Basename(source) = <<>> THEN <<"/", "tmp", "/", "gentoo-stage3.tar.xz">>
    ELSE <<"/", "tmp", "/">> \o Basename(source)

\* what C20 says of install_stage3, for a URL source downloaded to Dest(source)
MissingArchiveIsFatal(Dest(_)) ==
    LET source == Stage3Source
        tarball == IF IsUrl(source) THEN Dest(source) ELSE source
    IN  Stage2Began /\ Truthy(source) =>
          /\ ( /\ tarball \notin fs
               /\ \A i \in 1..Len(log) : ~IsFail(log[i], "wget") )
             => /\ pc = "exited" /\ exit_code = 1
                /\ IsNotFoundLine(log[Len(log)], tarball)
                /\ \A i \in 1..Len(log) : ~IsExtract(log[i]) /\ ~IsFstabEvent(log[i])
          /\ IsUrl(source) =>
                \E i \in 1..Len(log) :
                    /\ log[i].k = "log" /\ log[i].argv = <<L("wget"), L("-O"), tarball, source>>
                    /\ \A j \in 1..Len(log) :
                          /\ IsExtract(log[j]) => j > i /\ log[j].argv[3] = tarball
                          /\ IsNotFoundLine(log[j], tarball) => j > i
                          /\ log[j].k = "print" /\ log[j].s[1] = "[ERROR] Stage3 tarball not found: "
                                => IsNotFoundLine(log[j], tarball)

\* C20 as stated: a missing archive ends the process with status 1 before
\* tar, without fstab and without later stage; a URL source is first
\* downloaded to /tmp/<basename> and extracted from there.
C20_MissingArchiveIsFatal_Basename == MissingArchiveIsFatal(TmpBasename)

\* C20, amended: the same, the download going to /tmp/<basename> or, for a
\* URL whose basename is empty, to /tmp/gentoo-stage3.tar.xz.
C20_MissingArchiveIsFatal == MissingArchiveIsFatal(TmpBasenameOrDefault)

\* a dry run with a URL source: wget recorded, then the archive is not found
C20_Witness ==
    /\ IsUrl(Stage3Source) /\ pc = "exited" /\ exit_code = 1
    /\ \E i \in 1..Len(log) : IsCmd(log[i], "wget") /\ i < Len(log)
    /\ IsNotFoundLine(log[Len(log)], TmpTar)

----------------------------------------------------------------------------
(* generate_fstab *)

\* target is the install root or a path beneath it
UnderRoot(target) == target = GENTOO_ROOT \/ StartsWith(target, GENTOO_ROOT \o <<"/">>)
\* a row with its four columns filled whose target is under the install root
IsRowUnderRoot(row) == Len(row) = 4 /\ row[3] # <<>> /\ row[4] # <<>> /\ UnderRoot(row[2])

\* 'UUID=<uuid> <mountpoint> <fstype> defaults 0 <pass>'
ExpectedMountLine(row) ==
    LET mountpoint == IF row[2] = GENTOO_ROOT THEN <<"/">>
                      ELSE SubSeq(row[2], Len(GENTOO_ROOT) + 1, Len(row[2]))
    IN  <<"UUID=">> \o row[4] \o <<" ">> \o mountpoint \o <<" ">> \o row[3]
        \o <<" ", "defaults", " ", "0", " ">> \o (IF mountpoint = <<"/">> THEN <<"1">> ELSE <<"2">>)

RECURSIVE ExpectedMountLines(_)
ExpectedMountLines(rows) ==
    IF rows = <<>> THEN <<>>
    ELSE (IF IsRowUnderRoot(rows[1]) THEN <<ExpectedMountLine(rows[1])>> ELSE <<>>)
         \o ExpectedMountLines(Tail(rows))

ExpectedSwapLines(a) ==
    IF a.swap_partition \notin {None, <<>>} /\ a.blkid # <<>>
    THEN << <<"UUID=">> \o a.blkid \o <<" ", "none", " ", "swap", " ", "sw", " ", "0", " ", "0">> >>
    ELSE <<>>

\* C22: when no row is outside the root with a target that merely begins
\* like it, generate_fstab's lines are, in row order, one UUID line per row
\* under the install root (mountpoint relative to the root, pass 1 for /, 2
\* otherwise), then the swap line iff a swap partition is configured and its
\* UUID is non-empty; the rows of the example give exactly its three lines.
C22_FstabLines ==
    call.f = "generate_fstab" /\ call.done =>
        LET a == call.args IN
        /\ (\A i \in 1..Len(a.rows) : Len(a.rows[i]) = 4 /\ StartsWith(a.rows[i][2], GENTOO_ROOT)
                                        => UnderRoot(a.rows[i][2]))
              => call.ret = ExpectedMountLines(a.rows) \o ExpectedSwapLines(a)
        /\ ( /\ a.rows = << <<Sda2, <<"/", "mnt", "/", "gentoo">>, L("ext4"), L("ABCD")>>,
                            <<Sda1, <<"/", "mnt", "/", "gentoo", "/", "boot">>, L("vfat"), L("EF01")>> >>
             /\ a.swap_partition = Sda3 /\ a.blkid = L("9999") )
              => call.ret =
                   << <<"UUID=", "ABCD", " ", "/", " ", "ext4", " ", "defaults", " ", "0", " ", "1">>,
                      <<"UUID=", "EF01", " ", "/", "boot", " ", "vfat", " ", "defaults", " ", "0", " ", "2">>,
                      <<"UUID=", "9999", " ", "none", " ", "swap", " ", "sw", " ", "0", " ", "0">> >>

\* generate_fstab has returned three lines for the root row, the boot row and the swap UUID
C22_Witness ==
    /\ call.f = "generate_fstab" /\ call.done
    /\ call.args.rows = MountRows /\ call.args.swap_partition = Sda3 /\ call.args.blkid = L("9999")
    /\ Len(call.ret) = 3

\* C23: every line generate_fstab produces from the mount rows comes from a
\* row with a filesystem type and a UUID whose target is the install root or
\* a path beneath it.
C23_OutsideRowsExcluded ==
    call.f = "generate_fstab" /\ call.done =>
        \A n \in 1..Len(call.ret) :
            \/ <<call.ret[n]>> = ExpectedSwapLines(call.args)
            \/ \E i \in 1..Len(call.args.rows) :
                  /\ IsRowUnderRoot(call.args.rows[i])
                  /\ call.ret[n] = ExpectedMountLine(call.args.rows[i])

----------------------------------------------------------------------------
(* Config and credentials documents *)

\* C24: config_to_dict has neither password key; decoding it and encoding
\* again gives the same dict, and the decoded config has every field of the
\* original except the passwords.
C24_ConfigRoundTrip ==
    call.f = "config_to_dict" /\ call.done =>
        /\ DOMAIN call.ret.dict \cap {"root_password", "user_password"} = {}
        /\ call.ret.again = call.ret.dict
        /\ DOMAIN call.ret.decoded = DOMAIN call.args
        /\ \A k \in DOMAIN call.args \ {"root_password", "user_password"} :
              call.ret.decoded[k] = call.args[k] /\ k \in DOMAIN call.ret.dict

\* a config with both passwords set was encoded without them and decoded
C24_Witness ==
    /\ call.f = "config_to_dict" /\ call.done
    /\ call.args.root_password = L("secret1") /\ call.args.user_password = L("secret2")
    /\ call.args.disk_mode = L("manual") /\ call.args.format_partitions # <<>>
    /\ call.ret.decoded.format_partitions = call.args.format_partitions
    /\ call.ret.decoded.root_password = None

\* C25: config_from_dict returns a config with exactly the config's fields,
\* each taking the document's value if the document has that key and its
\* default otherwise, whatever other keys the document has.
C25_ConfigFromDictTolerant ==
    call.f = "config_from_dict" /\ call.done =>
        /\ DOMAIN call.ret = DOMAIN DefaultConfig
        /\ \A k \in DOMAIN DefaultConfig :
              call.ret[k] = IF k \in DOMAIN call.args THEN call.args[k] ELSE DefaultConfig[k]

\* a document with an unknown key and a hostname but no target_disk was decoded
C25_Witness ==
    /\ call.f = "config_from_dict" /\ call.done
    /\ "future_option" \in DOMAIN call.args /\ "hostname" \in DOMAIN call.args
    /\ "target_disk" \notin DOMAIN call.args
    /\ call.ret.hostname = L("box") /\ call.ret.target_disk = None

\* C26: the saved credentials document has a password key iff that password
\* is not None, and no other key; loading a document changes root_password
\* and user_password only, each only if the document is an object with that key.
C26_CredentialsFrame ==
    /\ call.f = "save_credentials_from_config" /\ call.done =>
          /\ DOMAIN call.ret \subseteq {"root_password", "user_password"}
          /\ \A k \in {"root_password", "user_password"} :
                /\ k \in DOMAIN call.ret <=> call.args[k] # None
                /\ k \in DOMAIN call.ret => call.ret[k] = call.args[k]
    /\ call.f = "load_credentials_into_config" /\ call.done =>
          LET c == call.args.cfg
              doc == call.args.doc
          IN  /\ DOMAIN call.ret = DOMAIN c
              /\ \A k \in DOMAIN c :
                    IF k \in {"root_password", "user_password"} /\ doc.is_dict /\ k \in DOMAIN doc.items
                    THEN call.ret[k] = doc.items[k]
                    ELSE call.ret[k] = c[k]

\* a document with root_password and hostname but no user_password was loaded
C26_Witness ==
    /\ call.f = "load_credentials_into_config" /\ call.done
    /\ call.args.doc.is_dict
    /\ DOMAIN call.args.doc.items = {"root_password", "hostname"}
    /\ call.args.cfg.user_password = L("secret2")
    /\ call.ret.root_password = L("from-file")
    /\ call.ret.user_password = L("secret2")
    /\ call.ret.hostname = L("gentoo")

----------------------------------------------------------------------------
(* install_stage3 without a source *)

IsNoSourceWarning(e) == e = EvPrint(L("[WARN] No stage3 source configured. Skipping extraction."))
IsDownload(e) == IsCmd(e, "wget")
IsFstabWork(e) ==
    \/ e.k = "spawn" /\ e.argv[1] \in {L("findmnt"), L("blkid")}
    \/ e.k = "write" /\ e.s = EtcFile("fstab")

\* C21: the archive install_stage3 extracts is the one resolved from the
\* config's stage3_source if that is set, from GENTOO_STAGE3_TARBALL
\* otherwise; with neither set the stage prints its warning, records no
\* download, no extraction and no fstab work, the process does not exit, and
\* configure_base_system is the stage that follows.
C21_NoSourceOnlyWarns ==
    /\ \A i \in 1..Len(log) :
          IsExtract(log[i]) =>
              /\ Truthy(Stage3Source)
              /\ log[i].argv[3] = IF IsUrl(Stage3Source) THEN TmpBasenameOrDefault(Stage3Source)
                                  ELSE Stage3Source
    /\ Stage2Began /\ ~Truthy(Stage3Source) =>
          /\ Times(IsNoSourceWarning) = 1
          /\ \A i \in 1..Len(log) :
                ~IsDownload(log[i]) /\ ~IsExtract(log[i]) /\ ~IsFstabWork(log[i])
          /\ pc # "exited"
          /\ pc = "stage3" \/ Times(IsStage3Start) = 1
          /\ \A i, j \in 1..Len(log) :
                IsNoSourceWarning(log[i]) /\ IsStage3Start(log[j]) => j = i + 1

\* a run with no source in the config or the environment reached the end
C21_Witness ==
    /\ cfg.stage3_source = None /\ environ.GENTOO_STAGE3_TARBALL = None
    /\ pc = "finished" /\ exit_code = 0
    /\ Times(IsNoSourceWarning) = 1

----------------------------------------------------------------------------
(* Selections the installer does not know *)

UnknownBootloader == cfg.bootloader \notin {L("systemd-boot"), L("grub")}
UnknownProfile == ~KnownProfile(cfg.desktop_profile)
UnknownKernel == cfg.kernel \notin {L("dist-kernel"), L("genkernel"), L("manual")}

IsBootloaderWarning(e) == e.k = "print" /\ e.s[1] = "[WARN] Bootloader "
IsProfileWarning(e) == e.k = "print" /\ e.s[1] = "Unknown desktop profile: "
IsKernelWarning(e) == e.k = "print" /\ e.s[1] = "[WARN] Unknown kernel mode: "

\* the commands of install_bootloader, install_desktop_environment, install_kernel
IsBootloaderCommand(e) ==
    /\ IsChrooted(e)
    /\ \/ e.argv[3] \in {L("bootctl"), L("grub-install"), L("grub-mkconfig")}
       \/ e.argv[3] = L("emerge") /\ LastArg(e) = L("sys-boot/grub")
IsProfileCommand(e) ==
    /\ IsChrooted(e)
    /\ \/ e.argv[3] = L("emerge") /\ LastArg(e) \in DesktopPackages
       \/ e.argv[3] = L("systemctl") /\ LastArg(e) \in DesktopServices
IsKernelCommand(e) ==
    /\ IsChrooted(e)
    /\ \/ e.argv[3] = L("emerge") /\ LastArg(e) \in {L("sys-kernel/linux-firmware"),
                                                     L("sys-kernel/gentoo-kernel-bin"),
                                                     L("sys-kernel/genkernel"),
                                                     L("sys-kernel/gentoo-sources")}
       \/ e.argv[3] = L("genkernel")

\* once stage n has run with an unknown selection: one warning of the step,
\* none of its commands, and the step after it has begun
WarnsAndSkips(unknown, n, IsWarning(_), IsCommand(_)) ==
    unknown /\ (pc \in {StageName(m) : m \in (n + 1)..7} \/ Times(IsWarning) > 0) =>
        /\ Times(IsWarning) = 1
        /\ Times(IsCommand) = 0
        /\ \A i \in 1..Len(log) :
              IsWarning(log[i]) => i < Len(log) \/ pc = StageName(n + 1)

UnknownBootloaderSkipped == WarnsAndSkips(UnknownBootloader, 4, IsBootloaderWarning, IsBootloaderCommand)
UnknownProfileSkipped == WarnsAndSkips(UnknownProfile, 5, IsProfileWarning, IsProfileCommand)
UnknownKernelSkipped == WarnsAndSkips(UnknownKernel, 3, IsKernelWarning, IsKernelCommand)

\* C27: with a bootloader, desktop profile key or kernel mode the installer
\* does not know, the step that handles the selection prints its warning,
\* records no command of its own, and the next step follows.
C27_UnknownSelectionIsNoOp ==
    UnknownBootloaderSkipped /\ UnknownProfileSkipped /\ UnknownKernelSkipped

IsFirmwareCommand(e) == IsKernelCommand(e) /\ LastArg(e) = L("sys-kernel/linux-firmware")
IsKernelInstallCommand(e) == IsKernelCommand(e) /\ ~IsFirmwareCommand(e)

\* C27, amended: the same for the bootloader and the desktop profile; with
\* a kernel mode the installer does not know, install_kernel still records
\* the linux-firmware emerge, then prints its warning and records no command
\* that installs a kernel, and the next step follows.
C27_UnknownSelectionSkipped ==
    /\ UnknownBootloaderSkipped
    /\ UnknownProfileSkipped
    /\ WarnsAndSkips(UnknownKernel, 3, IsKernelWarning, IsKernelInstallCommand)
    /\ \A i \in 1..Len(log) :
          IsKernelWarning(log[i]) =>
              /\ UnknownKernel
              /\ \E j \in 1..(i - 1) :
                    /\ IsFirmwareCommand(log[j])
                    /\ \A k \in (j + 1)..(i - 1) : log[k].k \in {"spawn", "fail", "print"}

\* a run with kernel mode "custom" reached the end: firmware emerge, warning, no kernel
C27_Witness ==
    /\ cfg.kernel = L("custom") /\ pc = "finished"
    /\ Times(IsKernelWarning) = 1 /\ Times(IsFirmwareCommand) = 1
    /\ Times(IsKernelInstallCommand) = 0

----------------------------------------------------------------------------
(* The order of prepare_disks *)

IsLabel(e) == IsParted(e) /\ e.argv[4] = L("mklabel")
\* mount <device> /mnt/gentoo or mount <device> /mnt/gentoo/boot
IsStage1Mount(e) == IsCmd(e, "mount") /\ Len(e.argv) = 3 /\ e.argv[3] \in {GENTOO_ROOT, BootDir}
IsBootMount(e) == IsStage1Mount(e) /\ e.argv[3] = BootDir

\* C29: in the log of a run the label command comes before every other
\* parted command, every parted command before every mkfs, every mkfs before
\* the mounts at /mnt/gentoo and /mnt/gentoo/boot, so a partition's mkfs
\* before that partition's mount, and the mount of the root partition at
\* /mnt/gentoo before the mount of the boot partition at /mnt/gentoo/boot.
C29_LabelPartitionFormatMount ==
    LET At(P(_)) == {i \in 1..Len(log) : P(log[i])}
        labels == At(IsLabel)
        parteds == At(IsParted)
        mkfss == At(IsMkfs)
        mounts == At(IsStage1Mount)
        roots == At(IsRootMount)
        boots == At(IsBootMount)
    IN  /\ \A i \in parteds \ labels, j \in labels : j < i
        /\ parteds # {} => labels # {}
        /\ \A i \in parteds, j \in mkfss : i < j
        /\ \A i \in mkfss, j \in mounts : i < j
        /\ \A i \in mkfss, j \in mounts : LastArg(log[i]) = log[j].argv[2] => i < j
        /\ \A j \in boots : \E i \in roots : i < j
        /\ \A i \in roots, j \in boots : i < j

\* a confirmed auto UEFI run got past stage 1: label, partitions, two mkfs, two mounts
C29_Witness ==
    /\ cfg.disk_mode = L("auto") /\ UefiOn(cfg) /\ answers.yes /\ PcNum > 1
    /\ Times(IsLabel) = 1 /\ Times(IsParted) = 4 /\ Times(IsMkfs) = 2
    /\ Times(IsRootMount) = 1 /\ Times(IsBootMount) = 1

----------------------------------------------------------------------------
(* The chroot mounts *)

\* mount --types proc /proc /mnt/gentoo/proc, then rbind and make-rslave of sys, dev, run
ExpectedChrootMounts ==
    << <<L("mount"), L("--types"), L("proc"), <<"/", "proc">>, GENTOO_ROOT \o <<"/", "proc">> >>,
       <<L("mount"), L("--rbind"), <<"/", "sys">>, GENTOO_ROOT \o <<"/", "sys">> >>,
       <<L("mount"), L("--make-rslave"), GENTOO_ROOT \o <<"/", "sys">> >>,
       <<L("mount"), L("--rbind"), <<"/", "dev">>, GENTOO_ROOT \o <<"/", "dev">> >>,
       <<L("mount"), L("--make-rslave"), GENTOO_ROOT \o <<"/", "dev">> >>,
       <<L("mount"), L("--rbind"), <<"/", "run">>, GENTOO_ROOT \o <<"/", "run">> >>,
       <<L("mount"), L("--make-rslave"), GENTOO_ROOT \o <<"/", "run">> >> >>

IsChpasswd(e) == IsChrooted(e) /\ e.argv[3] = L("chpasswd")

\* C30: the mount commands of setup_chroot_mounts in the log are, in order,
\* the proc mount and for sys, dev and run the rbind with the make-rslave of
\* the same target next to it (nothing between two of them but the running
\* of the first); all seven are there once a chrooted command, chpasswd
\* included, is in the log, and each of them comes before every chrooted one.
C30_ChrootMountsBeforeChroot ==
    LET binds == SelectSeq(log, IsBindMount)
        at == {i \in 1..Len(log) : IsBindMount(log[i])}
        chroots == {i \in 1..Len(log) : IsChrooted(log[i])}
    IN  /\ Len(binds) <= 7
        /\ \A n \in 1..Len(binds) : binds[n].argv = ExpectedChrootMounts[n]
        /\ chroots # {} \/ pc \in {"stage4", "stage5", "stage6", "finished"} => Len(binds) = 7
        /\ \A i \in at, j \in chroots : i < j
        /\ \A i, j \in at :
              i < j /\ (\A k \in (i + 1)..(j - 1) : k \notin at) =>
                  \A k \in (i + 1)..(j - 1) : log[k].k = "spawn" /\ log[k].argv = log[i].argv

\* a live run reached the end: seven mounts, chrooted commands and chpasswd after them
C30_Witness ==
    /\ pc = "finished" /\ ~dry_run
    /\ Times(IsBindMount) = 7
    /\ Times(IsChpasswd) = 2
    /\ \E i \in 1..Len(log) : log[i].k = "spawn" /\ log[i].argv = ExpectedChrootMounts[7]

----------------------------------------------------------------------------
(* The exit status of main *)

\* the line the process prints last when the operator aborts or a fatal
\* precondition is hit
IsAbortLine(e) ==
    \/ e = EvPrint(L("Installation aborted from TUI."))
    \/ e = EvPrint(L("Aborted by user."))
IsFatalLine(e) ==
    \/ e = EvPrint(L("No disk entered, aborting."))
    \/ e = EvPrint(L("[ERROR] Manual disk mode selected but no root_partition set."))
    \/ e.k = "print" /\ e.s # <<>> /\ e.s[1] = "[ERROR] Stage3 tarball not found: "

----------------------------------------------------------------------------
(* Formatting in manual mode *)

\* the command that formats path as fstype, <<>> if the installer has none
Formatter(path, fstype) ==
    IF fstype = L("ext4") THEN <<L("mkfs.ext4"), path>>
    ELSE IF fstype = L("vfat") THEN <<L("mkfs.vfat"), L("-F32"), path>>
    ELSE <<>>

\* the recorded commands on path other than its mount and mkdir
FormatsOf(path) ==
    {i \in 1..Len(log) : IsLog(log[i]) /\ LastArg(log[i]) = path
                         /\ log[i].argv[1] \notin {L("mount"), L("mkdir"), L("chroot")}}

\* a manual-mode run in which the operator confirmed formatting has mounted root
ConfirmedManualFormat ==
    /\ cfg.disk_mode = L("manual") /\ Truthy(cfg.root_partition)
    /\ cfg.format_partitions # <<>> /\ answers.yes
    /\ Times(IsRootMount) > 0

----------------------------------------------------------------------------
(* The commands of install_bootloader *)

InChroot(cmd) == <<L("chroot"), <<"/", "mnt", "/", "gentoo">> >> \o cmd

\* what install_bootloader is to issue for the selected bootloader
ExpectedBootloaderCommands ==
    IF cfg.bootloader = L("systemd-boot")
    THEN IF cfg.use_uefi = "True" THEN <<InChroot(<<L("bootctl"), L("--path=/boot"), L("install")>>)>>
         ELSE <<>>
    ELSE IF cfg.bootloader = L("grub")
    THEN << InChroot(<<L("emerge"), L("sys-boot/grub")>>),
            IF cfg.use_uefi = "True"
            THEN InChroot(<<L("grub-install"), L("--target=x86_64-efi"), L("--efi-directory=/boot"),
                            L("--bootloader-id=Gentoo")>>)
            ELSE InChroot(<<L("grub-install"), cfg.target_disk>>),
            InChroot(<<L("grub-mkconfig"), L("-o"), L("/boot/grub/grub.cfg")>>) >>
    ELSE <<>>

\* C32: the commands recorded by a step in which install_bootloader runs and
\* returns are: for systemd-boot the chrooted bootctl --path=/boot install
\* when use_uefi is true and none otherwise; for grub the emerge of
\* sys-boot/grub, grub-install (EFI target when use_uefi is true, the target
\* disk otherwise) and grub-mkconfig, in this order.
C32_BootloaderCommands ==
    [][pc = "stage4" /\ pc' = "stage5"
         => Argvs(SubSeq(log', Len(log) + 1, Len(log'))) = ExpectedBootloaderCommands]_vars

\* grub was installed to the target disk of a BIOS machine and the run went on
C32_Witness ==
    /\ cfg.bootloader = L("grub") /\ cfg.use_uefi = "False" /\ cfg.target_disk = Sda
    /\ pc \in {"stage5", "stage6", "finished"}
    /\ \E i \in 1..Len(log) :
          /\ i + 1 <= Len(log)
          /\ log[i].k = "log" /\ log[i].argv = InChroot(<<L("grub-install"), Sda>>)
          /\ \E j \in (i + 1)..Len(log) : IsCmd(log[j], "chroot") /\ log[j].argv[3] = L("grub-mkconfig")

----------------------------------------------------------------------------
(* Passwords in finalize_install *)

IsUseradd(e) == IsChrooted(e) /\ e.argv[3] = L("useradd") /\ LastArg(e) = cfg.username
\* chpasswd was run with the line name:password on its standard input
IsPasswordInput(e, name, password) ==
    e.k = "spawn" /\ Len(e.argv) = 3 /\ e.argv[3] = L("chpasswd") /\ e.in = name \o <<":">> \o password \o <<"\n">>
RootPasswordWanted == cfg.root_password # None /\ cfg.root_password # <<>>
UserPasswordWanted ==
    /\ cfg.username # None /\ cfg.username # <<>>
    /\ cfg.user_password # None /\ cfg.user_password # <<>>

\* C33: a run that reached the end has one chpasswd for root iff
\* root_password is non-empty and one for the user iff username and
\* user_password are both non-empty (in a live run chpasswd gets root:<pw>
\* and <username>:<pw> on its input); in every run a chpasswd that is not
\* root's comes after the useradd of cfg.username.
C33_PasswordsSet ==
    LET chp == {i \in 1..Len(log) : IsChpasswd(log[i])}
        adds == {i \in 1..Len(log) : IsUseradd(log[i])}
        rootN == IF RootPasswordWanted THEN 1 ELSE 0
        userN == IF UserPasswordWanted THEN 1 ELSE 0
    IN  /\ Cardinality(chp) <= rootN + userN
        /\ pc = "finished" => Cardinality(chp) = rootN + userN
        /\ \A j \in chp :
              Cardinality({k \in chp : k < j}) >= rootN =>
                  UserPasswordWanted /\ \E i \in adds : i < j
        /\ \A j \in chp : \A i \in adds : i < j => Cardinality({k \in chp : k < j}) = rootN
        /\ \A j \in 1..Len(log) :
              log[j].k = "spawn" /\ Len(log[j].argv) = 3 /\ log[j].argv[3] = L("chpasswd") =>
                  \/ RootPasswordWanted /\ IsPasswordInput(log[j], L("root"), cfg.root_password)
                  \/ /\ UserPasswordWanted
                     /\ IsPasswordInput(log[j], cfg.username, cfg.user_password)
                     /\ \E i \in adds : i < j
        /\ pc = "finished" /\ ~dry_run =>
              /\ RootPasswordWanted <=>
                    \E j \in 1..Len(log) : IsPasswordInput(log[j], L("root"), cfg.root_password)
              /\ UserPasswordWanted <=>
                    \E j \in 1..Len(log) : IsPasswordInput(log[j], cfg.username, cfg.user_password)

\* a live run reached the end: root's password, useradd, then the user's password
C33_Witness ==
    /\ pc = "finished" /\ ~dry_run /\ RootPasswordWanted /\ UserPasswordWanted
    /\ \E i, j, k \in 1..Len(log) :
          /\ i < j /\ j < k
          /\ IsPasswordInput(log[i], L("root"), cfg.root_password)
          /\ IsUseradd(log[j])
          /\ IsPasswordInput(log[k], cfg.username, cfg.user_password)

----------------------------------------------------------------------------
(* Swap in fstab and in finalize_install *)

HasSubSeq(s, t) == \E k \in 1..(Len(s) - Len(t) + 1) : SubSeq(s, k, k + Len(t) - 1) = t
IsSwapReport(e) == e.k = "print" /\ e.s # <<>> /\ e.s[1] = "[INFO] Swap partition configured: "
IsFstabWritten(e) == e.k = "write" /\ e.s = <<"/", "mnt", "/", "gentoo", "/", "etc", "/", "fstab">>
\* the fstab entry 'UUID=<uuid> none swap sw 0 0'
SwapEntry(uuid) == <<"UUID=">> \o uuid \o <<" ", "none", " ", "swap", " ", "sw", " ", "0", " ", "0">>

\* findmnt, blkid and the write of fstab come only after a tar that did not fail
FstabAfterExtraction ==
    \A j \in 1..Len(log) :
        IsFstabWork(log[j]) =>
            /\ \E i \in 1..(j - 1) : IsExtract(log[i])
            /\ \A k \in 1..Len(log) : ~IsFail(log[k], "tar")

\* a live run that ended with the report of a swap partition wrote, before
\* the report, an fstab with the swap entry of the UUID blkid printed for it
SwapReportedHasEntry ==
    \A i \in 1..Len(log) :
        IsSwapReport(log[i]) /\ ~dry_run /\ pc = "finished" =>
            /\ host.blkid # <<>>
            /\ \E j \in 1..(i - 1) :
                  IsFstabWritten(log[j]) /\ HasSubSeq(log[j].in, SwapEntry(host.blkid))

\* C34: when finalize_install reports a configured swap partition in a live
\* run that reached the end, stage 2 has before written an fstab with the
\* swap entry of that partition's UUID; fstab generation starts only after
\* the archive was extracted without failure.
C34_SwapReportedIsInFstab == FstabAfterExtraction /\ SwapReportedHasEntry

----------------------------------------------------------------------------
(* Complete configs in a dry-run *)

\* install_stage3 has no source or a local file that exists
SourceAbsentOrLocal == ~Truthy(Stage3Source) \/ (~IsUrl(Stage3Source) /\ Stage3Source \in fs)

\* C35: with a config that satisfies is_complete(), whatever the operator
\* answers, no recorded argument vector holds None, and a dry-run of the
\* pipeline whose stage3 source is absent or an existing local file does not
\* end before "Pipeline finished", in auto mode and in manual mode with
\* target_disk unset alike.
C35_CompleteConfigRunsThrough ==
    is_complete(cfg) =>
        /\ \A i \in 1..Len(log) : \A n \in 1..Len(log[i].argv) : log[i].argv[n] # None
        /\ ( /\ dry_run /\ SourceAbsentOrLocal
             /\ \A i \in 1..Len(log) :
                   ~IsAbortLine(log[i]) /\ log[i] # EvPrint(L("No disk entered, aborting.")) )
              => pc \notin {"exited", "crashed"}

----------------------------------------------------------------------------
(* Passwords in a configuration document *)

\* C37: whatever the document, the config that config_from_dict returns has
\* root_password and user_password unset.
C37_DecodingSetsNoPassword ==
    call.f = "config_from_dict" /\ call.done =>
        call.ret.root_password = None /\ call.ret.user_password = None

----------------------------------------------------------------------------
(* The config the disk screen leaves and its fstab *)

\* the UUID and the mountpoint column of an fstab line
UuidField(line) == line[2]
MountField(line) ==
    LET k == CHOOSE k \in 4..Len(line) : line[k] = " " /\ \A j \in 4..(k - 1) : line[j] # " "
    IN  SubSeq(line, 4, k - 1)
IsSwapLine(line) == MountField(line) = <<"none">>

\* C36: the fstab of a config the disk screen produced has pairwise
\* distinct UUIDs, and pairwise distinct mountpoints among its filesystem
\* entries; the swap entry does not carry the UUID of the root or boot entry.
C36_FstabEntriesDistinct ==
    call.f = "generate_fstab" /\ call.done /\ pc = "installed" =>
        \A m, n \in 1..Len(call.ret) :
            m # n =>
                /\ UuidField(call.ret[m]) # UuidField(call.ret[n])
                /\ ~IsSwapLine(call.ret[m]) /\ ~IsSwapLine(call.ret[n])
                      => MountField(call.ret[m]) # MountField(call.ret[n])

\* C38: when _tui_edit_disk has returned with disk_mode = auto, the config
\* has no root_partition, no boot_partition and no format marks.
C38_AutoForgetsManualSelection ==
    pc = "tui" /\ cfg.disk_mode = L("auto") =>
        /\ cfg.root_partition = None
        /\ cfg.boot_partition = None
        /\ cfg.format_partitions = <<>>

----------------------------------------------------------------------------
(* make.conf *)

IsMakeConfWrite(e) ==
    e.k = "write" /\ e.s = <<"/", "mnt", "/", "gentoo", "/", "etc", "/", "portage", "/", "make", ".", "conf">>
\* the write of MAKEOPTS, EMERGE_DEFAULT_OPTS, FEATURES and ACCEPT_LICENSE
IsSettingsWrite(e) == IsMakeConfWrite(e) /\ e.in # <<>> /\ e.in[1] = "MAKEOPTS=\"-j"
\* how many chunks of text are ch
CountOf(text, ch) == Cardinality({k \in 1..Len(text) : text[k] = ch})

\* make.conf is only appended to
MakeConfNeverTruncated ==
    \A i \in 1..Len(log) : IsMakeConfWrite(log[i]) => log[i].argv = <<L("a")>>

\* the settings are lines of their own, each ended by a newline character
SettingsAreLines ==
    \A i \in 1..Len(log) :
        IsSettingsWrite(log[i]) =>
            LET text == log[i].in IN
            /\ text[Len(text)] = "\n"
            /\ CountOf(text, "\n") = 3 + (IF cfg.features_parallel_fetch THEN 1 ELSE 0)
            /\ \A k \in 1..Len(text) :
                  text[k] \in {"EMERGE_DEFAULT_OPTS=\"", "FEATURES=\"", "ACCEPT_LICENSE=\""}
                      => text[k - 1] = "\n"

\* what is appended after the settings starts on a new line
LaterSettingsOnNewLine ==
    \A i, j \in 1..Len(log) :
        ( /\ IsMakeConfWrite(log[i]) /\ IsMakeConfWrite(log[j]) /\ i < j
          /\ \A k \in (i + 1)..(j - 1) : ~IsMakeConfWrite(log[k]) )
        => log[i].in[Len(log[i].in)] = "\n" \/ log[j].in[1] = "\n"

\* C39: in a live run the settings configure_base_system appends to
\* make.conf are each a line ended by a newline character, what is appended
\* afterwards (mirrors, CPU_FLAGS_X86) starts on a new line, and the file is
\* never truncated.
C39_MakeConfLines ==
    ~dry_run => MakeConfNeverTruncated /\ SettingsAreLines /\ LaterSettingsOnNewLine

----------------------------------------------------------------------------
(* Termination of run_install *)

\* a step of a running pipeline ends the process or starts the next stage
StageStepsForward ==
    pc \in Stages => pc' \in Ended \/ (pc' \in Stages /\ PcNum' = PcNum + 1)
\* a command that exited non-zero is not run a second time
NoCommandRetried ==
    \A i \in 1..Len(log) :
        log[i].k = "fail" => \A j \in (i + 1)..Len(log) :
                                 ~(log[j].k = "spawn" /\ log[j].argv = log[i].argv)

\* C40: a pipeline that has started comes to its end, at "Pipeline
\* finished", by sys.exit(1) or by an exception nothing catches; every step
\* on the way ends the process or moves to the next stage, so that no stage
\* runs twice, and no failed command is run again.
C40_RunInstallTerminates ==
    /\ (pc \in Stages) ~> (pc \in Ended)
    /\ [][StageStepsForward]_vars
    /\ []NoCommandRetried

\* a live run in which the operator first typed something else, then yes, reached the end
C40_Witness ==
    /\ pc = "finished" /\ ~dry_run /\ answers.junk > 0 /\ answers.yes
    /\ Times(IsFinishedLine) = 1 /\ Times(IsStage2Start) = 1 /\ Times(IsStage3Start) = 1

====
